---- MODULE Spec2Model ----
(***************************************************************************)
(* Model of the omnisage core: role hierarchy, permission engine with its   *)
(* policy cache, approval workflow with its in-memory store, audit logger. *)
(***************************************************************************)
EXTENDS Integers, Sequences, FiniteSets, TLC

VARIABLES
  now,           \* the wall clock (Date.now()), in model ticks
  policyCache,   \* PermissionEngine.policyCache: [cache, hits, misses]
  lastCall,      \* arguments of the latest checkPermission call, or NoCall
  lastDecision,  \* the AccessDecision that call returned
  lastPath,      \* which branch of checkPermission produced it
  lastLogged,    \* the events that call appended to auditBuffer.events
  lastRepeat,    \* what the latest call repeated, when it repeated the call before it
  heldRequest,   \* the ApprovalRequest value a caller holds, or NoRequest
  lastOp,        \* the latest ApprovalWorkflow operation applied to it
  store,         \* ApprovalStore.requests: id -> ApprovalRequest
  created,       \* the request as it was first saved to the store
  workers,       \* the callers acting on the stored request
  heldGrants,    \* the UserRole[] an administrator has granted to one user
  lastEffective, \* the latest getEffectiveRoles call: its arguments and result
  unitCache,     \* a PolicyCache used on its own: [cache, hits, misses]
  unitMaxSize,   \* the maxSize that cache was constructed with
  lastCacheOp,   \* the latest operation on it: name, argument, result, state before
  logBuffer,     \* AuditLogger.buffer: the events accepted by log(), not yet flushed
  flushing,      \* AuditLogger.flushing
  timerOn,       \* AuditLogger.flushTimer is set (the interval is running)
  stream,        \* AuditLogger.writeStream: none, open, ending, closed or failed
  streamQueue,   \* chunks taken by stream.write, not yet written to the file
  fileData,      \* the lines of the segment file
  durable,       \* how many lines of the file the latest fsync made durable
  nextEvent,     \* the id the next log() call stamps on its event
  tasks,         \* the pending async calls: the caller's and the timer callback's
  lastFlush,     \* how the latest flush() call settled
  lastDone,      \* how the latest log() or close() call settled
  requests,      \* an ApprovalStore.requests map of several users, in insertion order
  lastFind,      \* the latest get / findByUser / findPendingForApprover call
  auditBuf,      \* AuditLogger.buffer of a logger whose writes all succeed
  segments,      \* the log directory: day of audit-<day>.jsonl -> its lines
  logged,        \* every event as log() stamped it, in the order of the calls
  lastQuery,     \* the latest QueryEngine call and what it returned
  retLogDir,     \* the names in the directory RetentionPolicy works on, or Missing
  retArchive,    \* the names in the archive directory, or Missing
  lastEnforce,   \* the latest enforce call: config, result, directories before
  lastAttempt,   \* the latest checkPermission call on a context as the caller built it
  lastIncludes,  \* the latest roleIncludes / hasRoleOrHigher call and its result
  lastRedact,    \* the latest redactObject call: the input before, after, and the result
  lastSweep,     \* the latest enforce over the logger's segments: what it removed
  patternArrays, \* the pattern arrays on the heap, by reference; 0 is DEFAULT_REDACTION_PATTERNS
  redactors      \* each PIIRedactor instance's this.patterns: a reference into patternArrays

permVars == <<policyCache, lastCall, lastDecision, lastPath, lastLogged, lastRepeat>>
approvalVars == <<heldRequest, lastOp>>
storeVars == <<store, created, workers>>
roleVars == <<heldGrants, lastEffective>>
cacheVars == <<unitCache, unitMaxSize, lastCacheOp>>
loggerVars == <<logBuffer, flushing, timerOn, stream, streamQueue, fileData, durable,
                nextEvent, tasks, lastFlush, lastDone>>
finderVars == <<requests, lastFind>>
coreVars == <<permVars, approvalVars, storeVars, roleVars, cacheVars, loggerVars>>
auditVars == <<auditBuf, segments, logged, lastQuery>>
retentionVars == <<retLogDir, retArchive, lastEnforce>>
lateVars == <<lastSweep, patternArrays, redactors>>
unitVars == <<lastAttempt, lastIncludes, lastRedact, lateVars>>
laterVars == <<finderVars, auditVars, retentionVars, unitVars>>
otherVars == <<roleVars, cacheVars, loggerVars, laterVars>>
vars == <<now, permVars, approvalVars, storeVars, otherVars>>

\* ------------------------------------------------------------------------
\* Bounds of the model
\* ------------------------------------------------------------------------
MaxTime == 2        \* the clock stops advancing here
CacheTtl == 1       \* cacheTtlMs handed to the PermissionEngine constructor
MaxLookups == 2     \* cap on policyCache.hits + policyCache.misses

\* ------------------------------------------------------------------------
\* Values
\* ------------------------------------------------------------------------
Null == "null"
Undefined == "undefined"
NoCall == [kind |-> "none"]

\* ------------------------------------------------------------------------
\* Role hierarchy (role-hierarchy.ts)
\* ------------------------------------------------------------------------
OrgRoles == <<"org:owner", "org:admin", "org:member">>
WsRoles == <<"ws:admin", "ws:member", "ws:viewer">>

IsOrgRole(role) == role \in {"org:owner", "org:admin", "org:member"}
IsWsRole(role) == role \in {"ws:admin", "ws:member", "ws:viewer"}

getRoleLevel(role) ==
  CASE role = "org:owner" -> 3
    [] role = "org:admin" -> 2
    [] role = "org:member" -> 1
    [] role = "ws:admin" -> 3
    [] role = "ws:member" -> 2
    [] role = "ws:viewer" -> 1
    [] OTHER -> 0

\* a comparison of levels alone, without the test of the two families
roleIncludes_LevelsOnly(roleA, roleB) ==
  getRoleLevel(roleA) >= getRoleLevel(roleB)

roleIncludes(roleA, roleB) ==
  IF IsOrgRole(roleA) # IsOrgRole(roleB)
    THEN FALSE
    ELSE getRoleLevel(roleA) >= getRoleLevel(roleB)

getImpliedRoles(role) ==
  LET level == getRoleLevel(role) IN
  IF IsOrgRole(role)
    THEN SelectSeq(OrgRoles, LAMBDA r : getRoleLevel(r) <= level)
    ELSE IF IsWsRole(role)
      THEN SelectSeq(WsRoles, LAMBDA r : getRoleLevel(r) <= level)
      ELSE <<role>>

RECURSIVE ReduceHighest(_, _, _)
ReduceHighest(applicable, i, highest) ==
  IF i > Len(applicable)
    THEN highest
    ELSE LET current == applicable[i] IN
      ReduceHighest(applicable, i + 1,
        IF highest = Null
          THEN current.role
          ELSE IF getRoleLevel(current.role) > getRoleLevel(highest)
            THEN current.role
            ELSE highest)

getHighestRole(roles, scope) ==
  LET applicableRoles == SelectSeq(roles, LAMBDA r : r.scope = scope \/ r.scope = "*") IN
  IF Len(applicableRoles) = 0
    THEN Null
    ELSE ReduceHighest(applicableRoles, 1, Null)

hasRoleOrHigher(userRoles, requiredRole, scope) ==
  LET highestRole == getHighestRole(userRoles, scope) IN
  IF highestRole = Null THEN FALSE ELSE roleIncludes(highestRole, requiredRole)

\* Set.add over a sequence of values: a Set keeps insertion order and
\* ignores a value it already holds.
RECURSIVE SetAddAll(_, _)
SetAddAll(acc, values) ==
  IF values = <<>>
    THEN acc
    ELSE LET v == Head(values) IN
      SetAddAll(IF \E k \in 1..Len(acc) : acc[k] = v THEN acc ELSE Append(acc, v),
                Tail(values))

RECURSIVE AddImpliedOfEach(_, _)
AddImpliedOfEach(acc, grants) ==
  IF grants = <<>>
    THEN acc
    ELSE AddImpliedOfEach(SetAddAll(acc, getImpliedRoles(Head(grants).role)), Tail(grants))

getEffectiveRoles(userRoles, workspaceId, orgId) ==
  LET orgRole == getHighestRole(userRoles, orgId)
      fromOrg ==
        IF orgRole # Null
          THEN LET implied == SetAddAll(<<>>, getImpliedRoles(orgRole)) IN
            IF orgRole = "org:owner" \/ orgRole = "org:admin"
              THEN SetAddAll(implied, <<"ws:admin", "ws:member", "ws:viewer">>)
              ELSE implied
          ELSE <<>>
  IN AddImpliedOfEach(fromOrg, SelectSeq(userRoles, LAMBDA r : r.scope = workspaceId))

\* ------------------------------------------------------------------------
\* PolicyCache (policy-cache.ts).  A Map keeps its keys in insertion order:
\* the cache is a sequence of [key, value, expiresAt].
\* ------------------------------------------------------------------------
PolicyCacheMaxSize == 10000

NewPolicyCache == [cache |-> <<>>, hits |-> 0, misses |-> 0]

CacheIndex(cache, key) ==
  IF \E i \in 1..Len(cache) : cache[i].key = key
    THEN CHOOSE i \in 1..Len(cache) : cache[i].key = key
    ELSE 0

CacheDelete(cache, key) == SelectSeq(cache, LAMBDA e : e.key # key)

\* a get that returns an entry whatever its expiresAt
PolicyCache_get_IgnoreExpiry(pc, key, t) ==
  LET i == CacheIndex(pc.cache, key) IN
  IF i = 0
    THEN [found |-> FALSE, value |-> Null,
          pc |-> [pc EXCEPT !.misses = @ + 1]]
    ELSE [found |-> TRUE, value |-> pc.cache[i].value,
          pc |-> [pc EXCEPT !.hits = @ + 1]]

\* get(key): [found, value, pc]; found = FALSE stands for the null result
PolicyCache_get(pc, key, t) ==
  LET i == CacheIndex(pc.cache, key) IN
  IF i = 0
    THEN [found |-> FALSE, value |-> Null,
          pc |-> [pc EXCEPT !.misses = @ + 1]]
    ELSE IF t > pc.cache[i].expiresAt
      THEN [found |-> FALSE, value |-> Null,
            pc |-> [pc EXCEPT !.cache = CacheDelete(pc.cache, key), !.misses = @ + 1]]
      ELSE [found |-> TRUE, value |-> pc.cache[i].value,
            pc |-> [pc EXCEPT !.hits = @ + 1]]

\* Array.prototype.sort with (a, b) => a.expiresAt - b.expiresAt is stable
RECURSIVE InsertByExpiry(_, _)
InsertByExpiry(sorted, e) ==
  IF sorted = <<>>
    THEN <<e>>
    ELSE IF Head(sorted).expiresAt <= e.expiresAt
      THEN <<Head(sorted)>> \o InsertByExpiry(Tail(sorted), e)
      ELSE <<e>> \o sorted

RECURSIVE SortByExpiry(_)
SortByExpiry(entries) ==
  IF entries = <<>>
    THEN <<>>
    ELSE InsertByExpiry(SortByExpiry(SubSeq(entries, 1, Len(entries) - 1)),
                        entries[Len(entries)])

\* Math.ceil(maxSize * 0.1), for the sizes used here (0.1 * n rounds up to the
\* same integer as n / 10 for n <= 10 and for n = 10000)
EntriesToEvict(maxSize) == (maxSize + 9) \div 10

evictOldest(cache, maxSize) ==
  LET sorted == SortByExpiry(cache)
      n == IF EntriesToEvict(maxSize) < Len(sorted) THEN EntriesToEvict(maxSize) ELSE Len(sorted)
      evicted == {sorted[i].key : i \in 1..n}
  IN SelectSeq(cache, LAMBDA e : e.key \notin evicted)

PolicyCache_set(pc, key, value, t, ttlMs, maxSize) ==
  LET kept == IF Len(pc.cache) >= maxSize THEN evictOldest(pc.cache, maxSize) ELSE pc.cache
      entry == [key |-> key, value |-> value, expiresAt |-> t + ttlMs]
      i == CacheIndex(kept, key)
  IN [pc EXCEPT !.cache = IF i = 0 THEN Append(kept, entry) ELSE [kept EXCEPT ![i] = entry]]

PolicyCache_clear(pc) == NewPolicyCache

\* clearExpired(): deletes the entries with now > expiresAt
PolicyCache_clearExpired(pc, t) ==
  [pc EXCEPT !.cache = SelectSeq(pc.cache, LAMBDA e : ~(t > e.expiresAt))]

\* new RegExp(source) for a source made of literal characters, '.', and an
\* optional leading '^': a string is a sequence of one-character strings
RegExp(source) ==
  IF source # <<>> /\ Head(source) = "^"
    THEN [anchored |-> TRUE, body |-> Tail(source)]
    ELSE [anchored |-> FALSE, body |-> source]

\* does the body match the text at position p?  '.' matches any character
MatchAt(body, text, p) ==
  /\ p + Len(body) - 1 <= Len(text)
  /\ \A i \in 1..Len(body) : body[i] = "." \/ body[i] = text[p + i - 1]

\* pattern.test(text)
RegExp_test(pattern, text) ==
  IF pattern.anchored
    THEN MatchAt(pattern.body, text, 1)
    ELSE \E p \in 1..(Len(text) + 1) : MatchAt(pattern.body, text, p)

\* invalidate(pattern): [count, pc]
PolicyCache_invalidate(pc, pattern) ==
  LET kept == SelectSeq(pc.cache, LAMBDA e : ~RegExp_test(pattern, e.key)) IN
  [count |-> Len(pc.cache) - Len(kept), pc |-> [pc EXCEPT !.cache = kept]]

\* invalidateUser(userId): new RegExp(`^${userId}-`)
PolicyCache_invalidateUser(pc, userId) ==
  PolicyCache_invalidate(pc, RegExp(<<"^">> \o userId \o <<"-">>))

\* invalidateResource(resource): new RegExp(`-${resource}-`)
PolicyCache_invalidateResource(pc, resource) ==
  PolicyCache_invalidate(pc, RegExp(<<"-">> \o resource \o <<"-">>))

\* ------------------------------------------------------------------------
\* PermissionEngine (permission-engine.ts)
\* ------------------------------------------------------------------------
Perm(resource, action, scope) == [resource |-> resource, action |-> action, scope |-> scope]

DEFAULT_PERMISSIONS(role) ==
  CASE role = "org:owner" -> << Perm("*", "*", "*") >>
    [] role = "org:admin" ->
         << Perm("workspace", "create", "*"), Perm("workspace", "read", "*"),
            Perm("workspace", "update", "*"), Perm("user", "create", "*"),
            Perm("user", "read", "*"), Perm("user", "update", "*"),
            Perm("audit", "read", "*") >>
    [] role = "org:member" -> << Perm("workspace", "read", "*") >>
    [] role = "ws:admin" ->
         << Perm("agent", "create", "workspace"), Perm("agent", "read", "workspace"),
            Perm("agent", "update", "workspace"), Perm("agent", "delete", "workspace"),
            Perm("memory", "read", "workspace"), Perm("memory", "update", "workspace"),
            Perm("integration", "create", "workspace"), Perm("integration", "read", "workspace"),
            Perm("integration", "update", "workspace"), Perm("tool", "execute", "workspace") >>
    [] role = "ws:member" ->
         << Perm("agent", "read", "workspace"), Perm("agent", "execute", "workspace"),
            Perm("memory", "read", "workspace"), Perm("tool", "execute", "workspace") >>
    [] role = "ws:viewer" ->
         << Perm("agent", "read", "workspace"), Perm("memory", "read", "workspace") >>
    [] OTHER -> <<>>

DefaultPermMatches(perm, resource, action, scope) ==
  \/ perm.resource = "*" /\ perm.action = "*"
  \/ /\ perm.resource = resource \/ perm.resource = "*"
     /\ perm.action = action \/ perm.action = "*"
     /\ perm.scope = "*" \/ perm.scope = scope \/ perm.scope = "workspace"

checkDefaultPermissions(roles, resource, action, scope) ==
  \E i \in 1..Len(roles) :
    \E j \in 1..Len(DEFAULT_PERMISSIONS(roles[i])) :
      DefaultPermMatches(DEFAULT_PERMISSIONS(roles[i])[j], resource, action, scope)

DefaultGrantDecision ==
  [granted |-> TRUE, approvalRequired |-> FALSE,
   reason |-> <<"Granted by role permissions">>, policyId |-> Undefined]

DefaultDenyDecision ==
  [granted |-> FALSE, approvalRequired |-> FALSE,
   reason |-> <<"No matching permissions found">>, policyId |-> Undefined]

PolicyGrantDecision(policy) ==
  [granted |-> TRUE, approvalRequired |-> policy.approvalRequired,
   reason |-> IF policy.approvalRequired
                THEN <<"Granted with approval required">>
                ELSE <<"Granted by policy: ", policy.name>>,
   policyId |-> policy.id]

\* a deny that keeps an approval requirement
PolicyDenyDecision_ApprovalKept ==
  [granted |-> FALSE, approvalRequired |-> TRUE,
   reason |-> <<"No matching policy found">>, policyId |-> Undefined]

PolicyDenyDecision ==
  [granted |-> FALSE, approvalRequired |-> FALSE,
   reason |-> <<"No matching policy found">>, policyId |-> Undefined]

PolicyPermMatches(perm, resource, action, scope) ==
  /\ perm.resource = resource \/ perm.resource = "*"
  /\ perm.action = action \/ perm.action = "*"
  /\ perm.scope = "*" \/ perm.scope = scope

\* does the policy apply to the user and grant the permission?
PolicyGrants(policy, userRoles, resource, action, scope) ==
  /\ \E k \in 1..Len(policy.roles) : \E m \in 1..Len(userRoles) : userRoles[m] = policy.roles[k]
  /\ \E j \in 1..Len(policy.permissions) :
       PolicyPermMatches(policy.permissions[j], resource, action, scope)

\* the for loop over policies: the first policy that grants decides
RECURSIVE ScanPolicies(_, _, _, _, _)
ScanPolicies(policies, userRoles, resource, action, scope) ==
  IF policies = <<>>
    THEN PolicyDenyDecision
    ELSE IF PolicyGrants(Head(policies), userRoles, resource, action, scope)
      THEN PolicyGrantDecision(Head(policies))
      ELSE ScanPolicies(Tail(policies), userRoles, resource, action, scope)

\* `${userRoles.join(',')}-${resource}-${action}-${scope}`
CacheKey(userRoles, resource, action, scope) == <<userRoles, resource, action, scope>>

\* a checkPolicies that evaluates the rules on every call and only stores
checkPolicies_NoLookup(pc, policies, userRoles, resource, action, scope, t, ttlMs) ==
  LET cacheKey == CacheKey(userRoles, resource, action, scope)
      decision == ScanPolicies(policies, userRoles, resource, action, scope)
  IN [decision |-> decision,
      pc |-> PolicyCache_set([pc EXCEPT !.misses = @ + 1], cacheKey, decision, t, ttlMs,
                             PolicyCacheMaxSize),
      fromCache |-> FALSE]

\* checkPolicies: [decision, pc, fromCache]
checkPolicies(pc, policies, userRoles, resource, action, scope, t, ttlMs) ==
  LET cacheKey == CacheKey(userRoles, resource, action, scope)
      cached == PolicyCache_get(pc, cacheKey, t)
  IN IF cached.found
       THEN [decision |-> cached.value, pc |-> cached.pc, fromCache |-> TRUE]
       ELSE LET decision == ScanPolicies(policies, userRoles, resource, action, scope) IN
         [decision |-> decision,
          pc |-> PolicyCache_set(cached.pc, cacheKey, decision, t, ttlMs, PolicyCacheMaxSize),
          fromCache |-> FALSE]

\* targetScope || context.workspaceId || context.orgId  ('' is falsy)
ResolveScope(context, targetScope) ==
  IF targetScope # "" THEN targetScope
  ELSE IF context.workspaceId # "" THEN context.workspaceId
  ELSE context.orgId

\* mapToAuditAction (audit-integration.ts)
mapToAuditAction(action) ==
  CASE action \in {"create", "update", "delete"} -> "config_changed"
    [] action = "read" -> "memory_read"
    [] action = "execute" -> "tool_call"
    [] OTHER -> "tool_call"

\* a logAccessDecision that reports every decision as a success
logAccessDecision_AlwaysSuccess(context, resource, action, scope, decision, policyId) ==
  [orgId |-> context.orgId,
   workspaceId |-> context.workspaceId,
   agentId |-> "rbac-engine",
   action |-> mapToAuditAction(action),
   parameters |-> [resource |-> resource, action |-> action, scope |-> scope,
                   policyId |-> policyId],
   result |-> "success",
   errorMessage |-> <<Undefined>>,
   approvalRequired |-> decision.approvalRequired]

\* logAccessDecision: the event handed to auditBuffer.add
logAccessDecision(context, resource, action, scope, decision, policyId) ==
  [orgId |-> context.orgId,
   workspaceId |-> context.workspaceId,
   agentId |-> "rbac-engine",
   action |-> mapToAuditAction(action),
   parameters |-> [resource |-> resource, action |-> action, scope |-> scope,
                   policyId |-> policyId],
   result |-> IF decision.granted THEN "success" ELSE "denied",
   errorMessage |-> IF decision.granted THEN <<Undefined>> ELSE decision.reason,
   approvalRequired |-> decision.approvalRequired]

\* a checkPermission that asks the policies before the default role grants
checkPermission_PoliciesFirst(pc, context, resource, action, targetScope, t, ttlMs) ==
  LET scope == ResolveScope(context, targetScope)
      effectiveRoles == getEffectiveRoles(context.userRoles, context.workspaceId, context.orgId)
  IN IF Len(context.policies) > 0
       THEN LET r == checkPolicies(pc, context.policies, effectiveRoles,
                                   resource, action, scope, t, ttlMs) IN
         [decision |-> r.decision, pc |-> r.pc,
          path |-> IF r.fromCache THEN "cache" ELSE "policy",
            logged |-> << logAccessDecision(context, resource, action, scope,
                                            r.decision, r.decision.policyId) >>]
       ELSE IF checkDefaultPermissions(effectiveRoles, resource, action, scope)
         THEN [decision |-> DefaultGrantDecision, pc |-> pc, path |-> "default",
             logged |-> << logAccessDecision(context, resource, action, scope,
                                             DefaultGrantDecision, Undefined) >>]
         ELSE [decision |-> DefaultDenyDecision, pc |-> pc, path |-> "deny",
               logged |-> << logAccessDecision(context, resource, action, scope,
                                               DefaultDenyDecision, Undefined) >>]

\* checkPermission: [decision, pc, path, logged]; path names the branch that
\* returned and logged holds the events passed to logAccessDecision
\* ("cache" and "policy" are the two outcomes of the checkPolicies branch)
checkPermission(pc, context, resource, action, targetScope, t, ttlMs) ==
  LET scope == ResolveScope(context, targetScope)
      effectiveRoles == getEffectiveRoles(context.userRoles, context.workspaceId, context.orgId)
  IN IF checkDefaultPermissions(effectiveRoles, resource, action, scope)
       THEN [decision |-> DefaultGrantDecision, pc |-> pc, path |-> "default",
             logged |-> << logAccessDecision(context, resource, action, scope,
                                             DefaultGrantDecision, Undefined) >>]
       ELSE IF Len(context.policies) > 0
         THEN LET r == checkPolicies(pc, context.policies, effectiveRoles,
                                     resource, action, scope, t, ttlMs) IN
           [decision |-> r.decision, pc |-> r.pc,
            path |-> IF r.fromCache THEN "cache" ELSE "policy",
            logged |-> << logAccessDecision(context, resource, action, scope,
                                            r.decision, r.decision.policyId) >>]
         ELSE [decision |-> DefaultDenyDecision, pc |-> pc, path |-> "deny",
               logged |-> << logAccessDecision(context, resource, action, scope,
                                               DefaultDenyDecision, Undefined) >>]

\* ------------------------------------------------------------------------
\* Inputs of checkPermission explored by the model
\* ------------------------------------------------------------------------
OrgId == "org1"

UserRole(role, scope) == [role |-> role, scope |-> scope]

UserRoleLists ==
  { << UserRole("ws:viewer", "ws1") >>,
    << UserRole("org:owner", "org1") >> }

\* the rule of the end-to-end scenario: tool:execute for viewers, with approval
ViewerToolRule ==
  [id |-> "p1", name |-> "viewer-tool", roles |-> << "ws:viewer" >>,
   permissions |-> << Perm("tool", "execute", "ws1") >>, approvalRequired |-> TRUE]

\* a rule that grants none of the requests below
ViewerAuditRule ==
  [id |-> "p2", name |-> "viewer-audit", roles |-> << "ws:viewer" >>,
   permissions |-> << Perm("audit", "read", "*") >>, approvalRequired |-> FALSE]

\* a wildcard rule without approval
ViewerAnyToolRule ==
  [id |-> "p3", name |-> "viewer-any-tool", roles |-> << "ws:viewer" >>,
   permissions |-> << Perm("tool", "*", "*") >>, approvalRequired |-> FALSE]

PolicyLists ==
  { <<>>, << ViewerToolRule >>, << ViewerAuditRule >>,
    << ViewerToolRule, ViewerAnyToolRule >>, << ViewerAnyToolRule, ViewerToolRule >> }

WorkspaceIds == {"ws1"}
TargetScopes == {"", "ws2"}        \* "" stands for an absent targetScope

Contexts ==
  { [orgId |-> OrgId, workspaceId |-> w, userRoles |-> u, policies |-> p] :
      w \in WorkspaceIds, u \in UserRoleLists, p \in PolicyLists }

Requests ==
  { [resource |-> "tool", action |-> "execute"],
    [resource |-> "agent", action |-> "read"] }

Call(context, request, targetScope) ==
  [kind |-> "call", context |-> context, resource |-> request.resource,
   action |-> request.action, targetScope |-> targetScope]

\* ------------------------------------------------------------------------
\* The permission engine as a state machine
\* ------------------------------------------------------------------------
\* the latest call went through checkPolicies and no clearCache followed it:
\* clear() zeroes the counters that the lookup of that call had raised
NotClearedSinceCall ==
  lastPath \in {"policy", "cache"} /\ policyCache.hits + policyCache.misses > 0

NoRepeat == [repeated |-> FALSE]

\* the entry cached under the key of `call` has not passed its expiresAt
EntryStillValid(call) ==
  LET scope == ResolveScope(call.context, call.targetScope)
      roles == getEffectiveRoles(call.context.userRoles, call.context.workspaceId,
                                 call.context.orgId)
      i == CacheIndex(policyCache.cache, CacheKey(roles, call.resource, call.action, scope))
  IN i # 0 /\ now <= policyCache.cache[i].expiresAt

\* the record kept when `call`, which returns r, repeats the latest call on the
\* policy path with no clearCache between: how the second call compares with
\* the first (off the policy path the call alone determines the decision)
Repeat(call, r) ==
  IF lastCall = call /\ NotClearedSinceCall
    THEN [repeated |-> TRUE,
          entryValid |-> EntryStillValid(call),
          sameDecision |-> r.decision = lastDecision,
          oneMoreHit |-> r.pc.hits = policyCache.hits + 1 /\ r.pc.misses = policyCache.misses,
          sameEntries |-> r.pc.cache = policyCache.cache]
    ELSE NoRepeat

PermInit ==
  /\ policyCache = NewPolicyCache
  /\ lastCall = NoCall
  /\ lastDecision = DefaultDenyDecision
  /\ lastPath = "none"
  /\ lastLogged = <<>>
  /\ lastRepeat = NoRepeat

\* engine.checkPermission(context, resource, action, targetScope)
CheckPermission ==
  \E context \in Contexts, request \in Requests, targetScope \in TargetScopes :
    LET r == checkPermission(policyCache, context, request.resource, request.action,
                             targetScope, now, CacheTtl) IN
    /\ r.pc.hits + r.pc.misses <= MaxLookups
    /\ policyCache' = r.pc
    /\ lastCall' = Call(context, request, targetScope)
    /\ lastDecision' = r.decision
    /\ lastPath' = r.path
    /\ lastLogged' = r.logged
    /\ lastRepeat' = Repeat(Call(context, request, targetScope), r)
    /\ UNCHANGED <<now, approvalVars, storeVars, otherVars>>

\* engine.clearCache()
ClearCache ==
  /\ policyCache' = PolicyCache_clear(policyCache)
  /\ UNCHANGED <<now, lastCall, lastDecision, lastPath, lastLogged, lastRepeat,
               approvalVars, storeVars, otherVars>>

\* time passes
Tick ==
  /\ now < MaxTime
  /\ now' = now + 1
  /\ UNCHANGED <<permVars, approvalVars, storeVars, otherVars>>

\* ------------------------------------------------------------------------
\* Properties of the permission engine
\* ------------------------------------------------------------------------
IsCall == lastCall.kind = "call"

CallScope(call) == ResolveScope(call.context, call.targetScope)

CallRoles(call) ==
  getEffectiveRoles(call.context.userRoles, call.context.workspaceId, call.context.orgId)

CallHasDefaultGrant(call) ==
  checkDefaultPermissions(CallRoles(call), call.resource, call.action, CallScope(call))

\* what the call's own userRoles and policies yield when the cache is empty
FreshDecision(call) ==
  checkPermission(NewPolicyCache, call.context, call.resource, call.action,
                  call.targetScope, 0, CacheTtl).decision

\* C1: every decision returned by checkPermission equals the decision that
\* the call's own context yields with an empty cache; a grant is never
\* returned on the strength of a rule that context.policies no longer holds.
C1_DecisionFromOwnContext ==
  IsCall => lastDecision = FreshDecision(lastCall)

\* C9: when the default role grants of the effective roles match the request,
\* the decision is granted without approval, whatever the policies and the
\* cache hold.
C9_DefaultGrantNotReduced ==
  (IsCall /\ CallHasDefaultGrant(lastCall))
    => (lastDecision.granted /\ ~lastDecision.approvalRequired)

\* C9 witness: a default grant returned although a policy of the context
\* matches the request with approvalRequired, and the cache is not empty
C9_Witness ==
  /\ IsCall
  /\ CallHasDefaultGrant(lastCall)
  /\ ScanPolicies(lastCall.context.policies, CallRoles(lastCall), lastCall.resource,
                  lastCall.action, CallScope(lastCall)).approvalRequired
  /\ Len(policyCache.cache) > 0
  /\ lastDecision = DefaultGrantDecision

\* C10: every returned decision satisfies granted = FALSE => approvalRequired
\* = FALSE, on each of the four paths.
C10_DeniedNeedsNoApproval ==
  IsCall => (~lastDecision.granted => ~lastDecision.approvalRequired)

\* C10 witness: a denial served from the cache
C10_Witness ==
  IsCall /\ lastPath = "cache" /\ ~lastDecision.granted

\* C11: every checkPermission call hands exactly one access-decision event to
\* the audit buffer, on the default-grant, policy, cache-hit and default-deny
\* paths alike; the event describes the call and its result is success
\* exactly when the returned decision is granted.
C11_OneEventPerCheck ==
  IsCall =>
    /\ Len(lastLogged) = 1
    /\ (lastLogged[1].result = "success") <=> lastDecision.granted
    /\ (lastLogged[1].result = "denied") <=> ~lastDecision.granted
    /\ lastLogged[1].parameters.resource = lastCall.resource
    /\ lastLogged[1].parameters.action = lastCall.action
    /\ lastLogged[1].parameters.scope = CallScope(lastCall)

\* C11 witness: a denial served from the cache, logged as denied
C11_Witness ==
  /\ IsCall
  /\ lastPath = "cache"
  /\ ~lastDecision.granted
  /\ Len(lastLogged) = 1
  /\ lastLogged[1].result = "denied"

\* off the policy path checkPermission reads neither the cache nor the clock:
\* every call with these arguments returns this decision
DecidedByCallAlone ==
  (IsCall /\ lastPath \in {"default", "deny"}) => lastDecision = FreshDecision(lastCall)

\* the second call was served from the cache: one more hit, the entries as before
ServedFromCache ==
  lastPath = "cache" /\ lastRepeat.oneMoreHit /\ lastRepeat.sameEntries

NoRequest == [state |-> "none"]

IsTerminal(state) == state \in {"approved", "denied", "expired", "cancelled"}

\* config.requiredApprovals: 0 stands for an absent (or zero) value, both falsy
create(config, t) ==
  [id |-> "approval_1",
   type |-> config.type,
   approvers |-> config.approvers,
   requiredApprovals |-> IF config.requiredApprovals # 0 THEN config.requiredApprovals ELSE 1,
   state |-> "pending",
   createdAt |-> t,
   expiresAt |-> t + config.expirationMinutes * 60 * 1000,
   approvals |-> <<>>,
   completedAt |-> <<>>]

Approves(request) == SelectSeq(request.approvals, LAMBDA a : a.action = "approve")
Denials(request) == SelectSeq(request.approvals, LAMBDA a : a.action = "deny")

Completed(request, state, t) == [request EXCEPT !.state = state, !.completedAt = <<t>>]

updateState_single(request, t) ==
  IF Len(Approves(request)) >= 1 THEN Completed(request, "approved", t)
  ELSE IF Len(Denials(request)) >= 1 THEN Completed(request, "denied", t)
  ELSE request

\* a majority update that approves at the required count and never denies
updateState_majority_NoDenial(request, t) ==
  IF Len(Approves(request)) >= request.requiredApprovals
    THEN Completed(request, "approved", t)
    ELSE request

updateState_majority(request, t) ==
  LET required == request.requiredApprovals
      remaining == Len(request.approvers) - Len(request.approvals)
  IN IF Len(Approves(request)) >= required THEN Completed(request, "approved", t)
     ELSE IF Len(Approves(request)) + remaining < required THEN Completed(request, "denied", t)
     ELSE request

updateState_unanimous(request, t) ==
  IF Len(Denials(request)) >= 1 THEN Completed(request, "denied", t)
  ELSE IF Len(Approves(request)) = Len(request.approvers) THEN Completed(request, "approved", t)
  ELSE request

\* approvals[i].approverId !== request.approvers[i]; an index past the end of
\* approvers reads undefined, which differs from every approverId
OutOfOrder(request) ==
  \E i \in 1..Len(Approves(request)) :
    \/ i > Len(request.approvers)
    \/ Approves(request)[i].approverId # request.approvers[i]

\* a sequential update that counts approvals without looking at their order
updateState_sequential_Unordered(request, t) ==
  IF Len(Denials(request)) >= 1 THEN Completed(request, "denied", t)
  ELSE IF Len(Approves(request)) = Len(request.approvers) THEN Completed(request, "approved", t)
  ELSE request

updateState_sequential(request, t) ==
  IF Len(Denials(request)) >= 1 THEN Completed(request, "denied", t)
  ELSE IF OutOfOrder(request) THEN Completed(request, "denied", t)
  ELSE IF Len(Approves(request)) = Len(request.approvers) THEN Completed(request, "approved", t)
  ELSE request

updateState(request, t) ==
  CASE request.type = "single" -> updateState_single(request, t)
    [] request.type = "majority" -> updateState_majority(request, t)
    [] request.type = "unanimous" -> updateState_unanimous(request, t)
    [] request.type = "sequential" -> updateState_sequential(request, t)
    [] OTHER -> request

HasActed(request, approverId) ==
  \E i \in 1..Len(request.approvals) : request.approvals[i].approverId = approverId

IsApprover(request, approverId) ==
  \E i \in 1..Len(request.approvers) : request.approvers[i] = approverId

AddAction(request, approverId, action, t) ==
  [request EXCEPT !.approvals =
     Append(@, [approverId |-> approverId, action |-> action, timestamp |-> t])]

\* a processAction without the expiry check
processAction_NoExpiryCheck(request, approverId, action, t) ==
  IF request.state # "pending" THEN [error |-> "InvalidState", request |-> request]
  ELSE IF ~IsApprover(request, approverId) THEN [error |-> "Unauthorized", request |-> request]
  ELSE IF HasActed(request, approverId) THEN [error |-> "Duplicate", request |-> request]
  ELSE [error |-> "none", request |-> updateState(AddAction(request, approverId, action, t), t)]

\* a processAction without the already-acted check
processAction_NoDuplicateCheck(request, approverId, action, t) ==
  IF request.state # "pending" THEN [error |-> "InvalidState", request |-> request]
  ELSE IF t > request.expiresAt
    THEN [error |-> "none", request |-> [request EXCEPT !.state = "expired"]]
  ELSE IF ~IsApprover(request, approverId) THEN [error |-> "Unauthorized", request |-> request]
  ELSE [error |-> "none", request |-> updateState(AddAction(request, approverId, action, t), t)]

processAction(request, approverId, action, t) ==
  IF request.state # "pending" THEN [error |-> "InvalidState", request |-> request]
  ELSE IF t > request.expiresAt
    THEN [error |-> "none", request |-> [request EXCEPT !.state = "expired"]]
  ELSE IF ~IsApprover(request, approverId) THEN [error |-> "Unauthorized", request |-> request]
  ELSE IF HasActed(request, approverId) THEN [error |-> "Duplicate", request |-> request]
  ELSE [error |-> "none", request |-> updateState(AddAction(request, approverId, action, t), t)]

\* a cancel that does not look at the state
cancel_NoStateCheck(request, t) ==
  [error |-> "none", request |-> Completed(request, "cancelled", t)]

cancel(request, t) ==
  IF request.state # "pending"
    THEN [error |-> "InvalidState", request |-> request]
    ELSE [error |-> "none", request |-> Completed(request, "cancelled", t)]

checkExpiration(request, t) ==
  IF request.state = "pending" /\ t > request.expiresAt
    THEN Completed(request, "expired", t)
    ELSE request

getNextApprover(request) ==
  IF request.type # "sequential" THEN Null
  ELSE IF Len(Approves(request)) >= Len(request.approvers) THEN Null
  ELSE request.approvers[Len(Approves(request)) + 1]

getPendingApprovers(request) ==
  IF request.type = "sequential"
    THEN IF getNextApprover(request) # Null THEN << getNextApprover(request) >> ELSE <<>>
    ELSE SelectSeq(request.approvers, LAMBDA id : ~HasActed(request, id))

\* ------------------------------------------------------------------------
\* Inputs of the approval workflow explored by the model
\* ------------------------------------------------------------------------
MaxMinutes == 2     \* the approval clock stops after this many minutes

MinuteMs == 60 * 1000

ApprovalTypes == {"single", "majority", "unanimous", "sequential"}

\* u4 is on no approvers list
Actors == {"u1", "u2", "u3", "u4"}

ApproverLists ==
  { <<>>, <<"u1">>, <<"u1", "u2">>, <<"u1", "u2", "u3">>,
    <<"u1", "u1">>, <<"u1", "u1", "u2">> }

Configs ==
  { [type |-> ty, approvers |-> ap, expirationMinutes |-> ex, requiredApprovals |-> rq] :
      ty \in ApprovalTypes, ap \in ApproverLists, ex \in {-1, 1}, rq \in {0, 2, 4} }

Op(name, approverId, action, error, before, at) ==
  [op |-> name, approverId |-> approverId, action |-> action, error |-> error,
   before |-> before, at |-> at]

\* ------------------------------------------------------------------------
\* A caller working on one request: request = operation(request, ...)
\* ------------------------------------------------------------------------
ApprovalInit ==
  /\ heldRequest = NoRequest
  /\ lastOp = Op("none", "", "", "none", NoRequest, 0)

Create ==
  /\ heldRequest = NoRequest
  /\ \E config \in Configs :
       /\ heldRequest' = create(config, now)
       /\ lastOp' = Op("create", "", "", "none", NoRequest, now)
  /\ UNCHANGED <<now, permVars, storeVars, otherVars>>

\* request = ApprovalWorkflow.processAction(request, approverId, action);
\* when it throws, the caller keeps the request it had
ProcessAction ==
  /\ heldRequest # NoRequest
  /\ \E approverId \in Actors, action \in {"approve", "deny"} :
       LET r == processAction(heldRequest, approverId, action, now) IN
       /\ heldRequest' = r.request
       /\ lastOp' = Op("processAction", approverId, action, r.error, heldRequest, now)
  /\ UNCHANGED <<now, permVars, storeVars, otherVars>>

Cancel ==
  /\ heldRequest # NoRequest
  /\ LET r == cancel(heldRequest, now) IN
       /\ heldRequest' = r.request
       /\ lastOp' = Op("cancel", "", "", r.error, heldRequest, now)
  /\ UNCHANGED <<now, permVars, storeVars, otherVars>>

CheckExpiration ==
  /\ heldRequest # NoRequest
  /\ heldRequest' = checkExpiration(heldRequest, now)
  /\ lastOp' = Op("checkExpiration", "", "", "none", heldRequest, now)
  /\ UNCHANGED <<now, permVars, storeVars, otherVars>>

MinutePasses ==
  /\ now < MaxMinutes * MinuteMs
  /\ now' = now + MinuteMs
  /\ UNCHANGED <<permVars, approvalVars, storeVars, otherVars>>

\* ------------------------------------------------------------------------
\* ApprovalStore and two callers that each read the stored request, call
\* processAction on what they read and save the result
\* ------------------------------------------------------------------------
StoreSave(s, r) == [i \in (DOMAIN s) \cup {r.id} |-> IF i = r.id THEN r ELSE s[i]]

\* store.get(id) of an id that is present
StoreGet(s, id, t) == checkExpiration(s[id], t)

EmptyStore == [i \in {} |-> NoRequest]

WorkerIds == {"w1", "w2"}

StoreConfigs ==
  { [type |-> ty, approvers |-> <<"u1", "u2", "u3">>, expirationMinutes |-> 1,
     requiredApprovals |-> 2] : ty \in ApprovalTypes }

IdleWorker ==
  [pc |-> "idle", approverId |-> "", action |-> "", local |-> NoRequest, error |-> "none"]

StoreInit ==
  /\ store = EmptyStore
  /\ created = NoRequest
  /\ workers = [w \in WorkerIds |-> IdleWorker]

StoreCreate ==
  /\ created = NoRequest
  /\ \E config \in StoreConfigs :
       LET r == create(config, now) IN
       /\ store' = StoreSave(store, r)
       /\ created' = r
  /\ UNCHANGED <<now, permVars, approvalVars, workers, otherVars>>

\* const request = store.get(id)
WorkerRead(w) ==
  /\ created # NoRequest
  /\ workers[w].pc = "idle"
  /\ \E approverId \in {"u1", "u2"}, action \in {"approve", "deny"} :
       workers' = [workers EXCEPT ![w] =
         [pc |-> "read", approverId |-> approverId, action |-> action,
          local |-> StoreGet(store, created.id, now), error |-> "none"]]
  /\ UNCHANGED <<now, permVars, approvalVars, store, created, otherVars>>

\* const updated = ApprovalWorkflow.processAction(request, approverId, action)
WorkerProcess(w) ==
  /\ workers[w].pc = "read"
  /\ LET r == processAction(workers[w].local, workers[w].approverId, workers[w].action, now) IN
       workers' = [workers EXCEPT ![w] =
         IF r.error # "none"
           THEN [@ EXCEPT !.pc = "done", !.error = r.error]
           ELSE [@ EXCEPT !.pc = "processed", !.local = r.request]]
  /\ UNCHANGED <<now, permVars, approvalVars, store, created, otherVars>>

\* store.save(updated)
WorkerSave(w) ==
  /\ workers[w].pc = "processed"
  /\ store' = StoreSave(store, workers[w].local)
  /\ workers' = [workers EXCEPT ![w].pc = "done"]
  /\ UNCHANGED <<now, permVars, approvalVars, created, otherVars>>

\* ------------------------------------------------------------------------
\* Specifications
\* ------------------------------------------------------------------------
\* ------------------------------------------------------------------------
\* The role grants of one user, and getEffectiveRoles applied to them
\* ------------------------------------------------------------------------
MaxGrants == 2      \* length of the userRoles array

\* org grants are scoped to the organization; workspace grants to a
\* workspace or to '*' (all scopes)
GrantChoices ==
  { UserRole(r, OrgId) : r \in {"org:owner", "org:admin", "org:member"} }
    \cup { UserRole(r, sc) : r \in {"ws:admin", "ws:member", "ws:viewer"}, sc \in {"ws1", "*"} }

QueriedWorkspaces == {"ws1", "ws2"}

NoEffective == [kind |-> "none"]

RoleInit ==
  /\ heldGrants = <<>>
  /\ lastEffective = NoEffective

\* an administrator grants the user one more role
GrantRole ==
  /\ Len(heldGrants) < MaxGrants
  /\ \E g \in GrantChoices : heldGrants' = Append(heldGrants, g)
  /\ lastEffective' = NoEffective
  /\ UNCHANGED <<now, laterVars, permVars, approvalVars, storeVars, cacheVars, loggerVars>>

\* getEffectiveRoles(userRoles, workspaceId, orgId)
GetEffectiveRoles ==
  /\ \E w \in QueriedWorkspaces :
       lastEffective' = [kind |-> "result", userRoles |-> heldGrants, workspaceId |-> w,
                         roles |-> getEffectiveRoles(heldGrants, w, OrgId)]
  /\ UNCHANGED <<now, laterVars, permVars, approvalVars, storeVars, cacheVars, loggerVars, heldGrants>>

\* ------------------------------------------------------------------------
\* A PolicyCache used on its own: new PolicyCache(ttlMs, maxSize)
\* ------------------------------------------------------------------------
MaxSizes == {0, 1, 2}

\* user ids 'a.b' and 'axb'
UserIds == { <<"a", ".", "b">>, <<"a", "x", "b">> }

\* keys `${userId}-r-g` (resource r, action g)
UnitKey(userId) == userId \o <<"-", "r", "-", "g">>

UnitKeys == { UnitKey(u) : u \in UserIds }

UnitValues == { DefaultGrantDecision, PolicyDenyDecision }

ResourceNames == { <<"r">>, <<"g">> }

NoCacheOp == [name |-> "none"]

CacheOp(name, arg, result, before) ==
  [name |-> name, arg |-> arg, result |-> result, before |-> before, at |-> now]

CacheInit ==
  /\ unitCache = NewPolicyCache
  /\ unitMaxSize = CHOOSE m \in MaxSizes : \A k \in MaxSizes : k <= m
  /\ lastCacheOp = NoCacheOp

\* new PolicyCache(ttlMs, maxSize)
CacheConstruct ==
  /\ \E m \in MaxSizes : unitMaxSize' = m
  /\ unitCache' = NewPolicyCache
  /\ lastCacheOp' = NoCacheOp
  /\ UNCHANGED <<now, laterVars, permVars, approvalVars, storeVars, roleVars, loggerVars>>

\* cache.set(key, value)
CacheSet ==
  /\ \E key \in UnitKeys, value \in UnitValues :
       /\ unitCache' = PolicyCache_set(unitCache, key, value, now, CacheTtl, unitMaxSize)
       /\ lastCacheOp' = CacheOp("set", key, value, unitCache)
  /\ UNCHANGED <<now, laterVars, permVars, approvalVars, storeVars, roleVars, loggerVars, unitMaxSize>>

\* cache.get(key)
CacheGet ==
  /\ unitCache.hits + unitCache.misses < MaxLookups
  /\ \E key \in UnitKeys :
       LET r == PolicyCache_get(unitCache, key, now) IN
       /\ unitCache' = r.pc
       /\ lastCacheOp' = CacheOp("get", key, [found |-> r.found, value |-> r.value], unitCache)
  /\ UNCHANGED <<now, laterVars, permVars, approvalVars, storeVars, roleVars, loggerVars, unitMaxSize>>

\* cache.clearExpired()
CacheClearExpired ==
  /\ unitCache' = PolicyCache_clearExpired(unitCache, now)
  /\ lastCacheOp' = CacheOp("clearExpired", <<>>, <<>>, unitCache)
  /\ UNCHANGED <<now, laterVars, permVars, approvalVars, storeVars, roleVars, loggerVars, unitMaxSize>>

\* cache.invalidateUser(userId)
CacheInvalidateUser ==
  /\ \E userId \in UserIds :
       LET r == PolicyCache_invalidateUser(unitCache, userId) IN
       /\ unitCache' = r.pc
       /\ lastCacheOp' = CacheOp("invalidateUser", userId, r.count, unitCache)
  /\ UNCHANGED <<now, laterVars, permVars, approvalVars, storeVars, roleVars, loggerVars, unitMaxSize>>

\* cache.invalidateResource(resource)
CacheInvalidateResource ==
  /\ \E resource \in ResourceNames :
       LET r == PolicyCache_invalidateResource(unitCache, resource) IN
       /\ unitCache' = r.pc
       /\ lastCacheOp' = CacheOp("invalidateResource", resource, r.count, unitCache)
  /\ UNCHANGED <<now, laterVars, permVars, approvalVars, storeVars, roleVars, loggerVars, unitMaxSize>>

\* cache.clear()
CacheClear ==
  /\ unitCache' = PolicyCache_clear(unitCache)
  /\ lastCacheOp' = CacheOp("clear", <<>>, <<>>, unitCache)
  /\ UNCHANGED <<now, laterVars, permVars, approvalVars, storeVars, roleVars, loggerVars, unitMaxSize>>

\* ------------------------------------------------------------------------
\* AuditLogger (audit-logger.ts).  One caller issues log(), flush() and
\* close() and awaits each; the interval callback calls flush() on its own.
\* An async call runs to its next await in one step.
\* ------------------------------------------------------------------------
MaxEvents == 3        \* events logged in one run
MaxBufferSize == 2    \* config.maxBufferSize

Caller == "caller"
Timer == "timer"
TaskIds == {Caller, Timer}

SetOf(q) == { q[i] : i \in 1..Len(q) }

\* the events log() has accepted so far
Accepted == 1..(nextEvent - 1)

\* the events of the first n lines of the file
DurableEvents(n) == { fileData[i] : i \in 1..n }

Idle == [pc |-> "idle"]

\* a call of `op` made when `snap` had been accepted; event is the one a log() adds
CallOf(op, snap, event) == [op |-> op, snap |-> snap, event |-> event]

\* a flush in its for loop: idx lines of the batch handed to stream.write
Writing(call, batch, idx) == [pc |-> "writing", call |-> call, batch |-> batch, idx |-> idx]

NoFlush == [status |-> "none"]
NoneDone == [call |-> "none"]

\* getWriteStream(filePath) within one day: the stream is created when
\* currentLogFile is still null, and the current one is returned after that
getWriteStream(st) == IF st = "none" THEN "open" ELSE st

LoggerInit ==
  /\ logBuffer = <<>>
  /\ flushing = FALSE
  /\ timerOn = TRUE
  /\ stream = "none"
  /\ streamQueue = <<>>
  /\ fileData = <<>>
  /\ durable = 0
  /\ nextEvent = 1
  /\ tasks = [t \in TaskIds |-> Idle]
  /\ lastFlush = NoFlush
  /\ lastDone = NoneDone

\* a flush() call of task t settles: its promise resolves or rejects, and the
\* call that awaited it goes on.  batch is what the flush took from the buffer,
\* bufAfter the buffer it leaves, dur the durable line count it leaves.
FlushSettles(t, call, status, batch, bufAfter, dur) ==
  /\ lastFlush' =
       [status |-> status, op |-> call.op,
        notDurable |-> IF status = "resolved" THEN call.snap \ DurableEvents(dur) ELSE {},
        dropped |-> IF status = "rejected" THEN SetOf(batch) \ SetOf(bufAfter) ELSE {}]
  /\ IF call.op = "close" /\ status = "resolved"
       THEN /\ tasks' = [tasks EXCEPT ![t] = [pc |-> "end", call |-> call]]
            /\ UNCHANGED lastDone
       ELSE /\ tasks' = [tasks EXCEPT ![t] = Idle]
            /\ lastDone' =
                 IF call.op = "log"
                   THEN [call |-> "log", ok |-> status = "resolved",
                         lost |-> call.event \notin
                                    (SetOf(bufAfter) \cup SetOf(streamQueue) \cup SetOf(fileData))]
                   ELSE IF call.op = "close"
                     THEN [call |-> "close", ok |-> FALSE]
                     ELSE lastDone

\* flush(), up to its first await, called by task t with the buffer holding buf
flush(t, call, buf) ==
  IF flushing \/ buf = <<>>
    THEN /\ logBuffer' = buf
         /\ UNCHANGED <<flushing, stream, streamQueue>>
         /\ FlushSettles(t, call, "resolved", <<>>, buf, durable)
    ELSE IF getWriteStream(stream) = "open"
      THEN /\ logBuffer' = <<>>
           /\ flushing' = TRUE
           /\ stream' = "open"
           /\ streamQueue' = Append(streamQueue, Head(buf))
           /\ tasks' = [tasks EXCEPT ![t] = Writing(call, buf, 1)]
           /\ UNCHANGED <<lastFlush, lastDone>>
      ELSE /\ logBuffer' = <<>>
           /\ flushing' = FALSE
           /\ UNCHANGED <<stream, streamQueue>>
           /\ FlushSettles(t, call, "rejected", buf, <<>>, durable)

\* logger.log(event)
Log ==
  /\ tasks[Caller] = Idle
  /\ nextEvent <= MaxEvents
  /\ nextEvent' = nextEvent + 1
  /\ LET buf == Append(logBuffer, nextEvent) IN
     IF Len(buf) >= MaxBufferSize
       THEN flush(Caller, CallOf("log", 1..nextEvent, nextEvent), buf)
       ELSE /\ logBuffer' = buf
            /\ lastDone' = [call |-> "log", ok |-> TRUE, lost |-> FALSE]
            /\ UNCHANGED <<flushing, stream, streamQueue, tasks, lastFlush>>
  /\ UNCHANGED <<now, laterVars, permVars, approvalVars, storeVars, roleVars, cacheVars,
                 timerOn, fileData, durable>>

\* logger.flush()
Flush ==
  /\ tasks[Caller] = Idle
  /\ flush(Caller, CallOf("flush", Accepted, 0), logBuffer)
  /\ UNCHANGED <<now, laterVars, permVars, approvalVars, storeVars, roleVars, cacheVars,
                 timerOn, fileData, durable, nextEvent>>

\* the setInterval callback of startFlushTimer: this.flush().catch(...)
TimerFlush ==
  /\ timerOn
  /\ tasks[Timer] = Idle
  /\ flush(Timer, CallOf("timer", Accepted, 0), logBuffer)
  /\ UNCHANGED <<now, laterVars, permVars, approvalVars, storeVars, roleVars, cacheVars,
                 timerOn, fileData, durable, nextEvent>>

\* logger.close(), up to its await of flush()
Close ==
  /\ tasks[Caller] = Idle
  /\ timerOn' = FALSE
  /\ flush(Caller, CallOf("close", Accepted, 0), logBuffer)
  /\ UNCHANGED <<now, laterVars, permVars, approvalVars, storeVars, roleVars, cacheVars,
                 fileData, durable, nextEvent>>

\* the for loop of flush goes on: writeToStream(stream, line) for the next
\* event of the batch; a stream that is ending, closed or failed takes no write
WriteToStream(t) ==
  /\ tasks[t].pc = "writing"
  /\ tasks[t].idx < Len(tasks[t].batch)
  /\ IF stream = "open"
       THEN /\ streamQueue' = Append(streamQueue, tasks[t].batch[tasks[t].idx + 1])
            /\ tasks' = [tasks EXCEPT ![t].idx = @ + 1]
            /\ UNCHANGED <<flushing, lastFlush, lastDone>>
       ELSE /\ flushing' = FALSE
            /\ UNCHANGED streamQueue
            /\ FlushSettles(t, tasks[t].call, "rejected", tasks[t].batch, logBuffer, durable)
  /\ UNCHANGED <<now, laterVars, permVars, approvalVars, storeVars, roleVars, cacheVars,
                 logBuffer, timerOn, stream, fileData, durable, nextEvent>>

\* syncStream(stream) succeeds: fs.fsync(stream.fd) makes durable what the
\* file holds by then; chunks still queued in the stream are not part of it
SyncStream(t) ==
  /\ tasks[t].pc = "writing"
  /\ tasks[t].idx = Len(tasks[t].batch)
  /\ stream \in {"open", "ending"}
  /\ durable' = Len(fileData)
  /\ flushing' = FALSE
  /\ FlushSettles(t, tasks[t].call, "resolved", tasks[t].batch, logBuffer, Len(fileData))
  /\ UNCHANGED <<now, laterVars, permVars, approvalVars, storeVars, roleVars, cacheVars,
                 logBuffer, timerOn, stream, streamQueue, fileData, nextEvent>>

\* syncStream(stream) fails: fsync reports an error, or the stream has failed
\* or its descriptor is closed
SyncFails(t) ==
  /\ tasks[t].pc = "writing"
  /\ tasks[t].idx = Len(tasks[t].batch)
  /\ flushing' = FALSE
  /\ FlushSettles(t, tasks[t].call, "rejected", tasks[t].batch, logBuffer, durable)
  /\ UNCHANGED <<now, laterVars, permVars, approvalVars, storeVars, roleVars, cacheVars,
                 logBuffer, timerOn, stream, streamQueue, fileData, durable, nextEvent>>

\* the stream writes its oldest queued chunk to the file
StreamWrites ==
  /\ stream \in {"open", "ending"}
  /\ streamQueue # <<>>
  /\ fileData' = Append(fileData, Head(streamQueue))
  /\ streamQueue' = Tail(streamQueue)
  /\ UNCHANGED <<now, laterVars, permVars, approvalVars, storeVars, roleVars, cacheVars,
                 logBuffer, flushing, timerOn, stream, durable, nextEvent, tasks,
                 lastFlush, lastDone>>

\* a write of the stream fails (disk full, permission denied): the stream
\* emits 'error' and is destroyed with the chunks it had queued
StreamFails ==
  /\ stream \in {"open", "ending"}
  /\ streamQueue # <<>>
  /\ stream' = "failed"
  /\ streamQueue' = <<>>
  /\ UNCHANGED <<now, laterVars, permVars, approvalVars, storeVars, roleVars, cacheVars,
                 logBuffer, flushing, timerOn, fileData, durable, nextEvent, tasks,
                 lastFlush, lastDone>>

\* how close() settles
CloseDone(call, ok, st) ==
  [call |-> "close", ok |-> ok,
   bufferLeft |-> Len(logBuffer),
   notInFile |-> call.snap \ SetOf(fileData),
   streamClosed |-> st \in {"none", "closed"},
   timerStopped |-> ~timerOn]

\* close() after its flush(): this.writeStream.end(callback) when a stream is set
EndStream ==
  /\ tasks[Caller].pc = "end"
  /\ IF stream \in {"none", "closed"}
       THEN /\ tasks' = [tasks EXCEPT ![Caller] = Idle]
            /\ lastDone' = CloseDone(tasks[Caller].call, TRUE, stream)
            /\ UNCHANGED stream
       ELSE IF stream = "open"
         THEN /\ stream' = "ending"
              /\ tasks' = [tasks EXCEPT ![Caller].pc = "ending"]
              /\ UNCHANGED lastDone
         ELSE /\ tasks' = [tasks EXCEPT ![Caller] = Idle]
              /\ lastDone' = CloseDone(tasks[Caller].call, FALSE, stream)
              /\ UNCHANGED stream
  /\ UNCHANGED <<now, laterVars, permVars, approvalVars, storeVars, roleVars, cacheVars,
                 logBuffer, flushing, timerOn, streamQueue, fileData, durable, nextEvent,
                 lastFlush>>

\* the callback of end(): the queued chunks are written and the file is
\* closed (this.writeStream = null), or the stream failed meanwhile
StreamFinished ==
  /\ tasks[Caller].pc = "ending"
  /\ \/ /\ stream = "ending"
        /\ streamQueue = <<>>
        /\ stream' = "closed"
        /\ lastDone' = CloseDone(tasks[Caller].call, TRUE, "closed")
     \/ /\ stream = "failed"
        /\ UNCHANGED stream
        /\ lastDone' = CloseDone(tasks[Caller].call, FALSE, stream)
  /\ tasks' = [tasks EXCEPT ![Caller] = Idle]
  /\ UNCHANGED <<now, laterVars, permVars, approvalVars, storeVars, roleVars, cacheVars,
                 logBuffer, flushing, timerOn, streamQueue, fileData, durable, nextEvent,
                 lastFlush>>

\* ------------------------------------------------------------------------
\* ApprovalStore holding the requests of several users, and its three readers
\* ------------------------------------------------------------------------
\* Map.set: a new key goes to the end, a known key keeps its place
ApprovalStore_save(reqs, r) ==
  IF \E i \in 1..Len(reqs) : reqs[i].id = r.id
    THEN [i \in 1..Len(reqs) |-> IF reqs[i].id = r.id THEN r ELSE reqs[i]]
    ELSE Append(reqs, r)

MapSeq(q, t) == [i \in 1..Len(q) |-> checkExpiration(q[i], t)]

\* get(id): undefined for an unknown id, shown as the empty list of results
ApprovalStore_get(reqs, id, t) ==
  MapSeq(SelectSeq(reqs, LAMBDA r : r.id = id), t)

\* a findByUser that returns the stored values as they are
ApprovalStore_findByUser_Stored(reqs, userId, state, t) ==
  SelectSeq(reqs, LAMBDA r : r.userId = userId /\ (state = Undefined \/ r.state = state))

\* state = Undefined stands for the absent optional argument
ApprovalStore_findByUser(reqs, userId, state, t) ==
  MapSeq(SelectSeq(reqs, LAMBDA r : r.userId = userId /\ (state = Undefined \/ r.state = state)), t)

ApprovalStore_findPendingForApprover(reqs, approverId, t) ==
  MapSeq(SelectSeq(reqs, LAMBDA r : r.state = "pending" /\ IsApprover(r, approverId)), t)

\* generateId gives every request an id of its own, here its number
RequestIds == {1, 2}

Requesters == { "alice", "bob" }

FinderConfigs ==
  { [type |-> "single", approvers |-> <<"u1">>, expirationMinutes |-> 1,
     requiredApprovals |-> 0],
    [type |-> "unanimous", approvers |-> <<"u1", "u2">>, expirationMinutes |-> 2,
     requiredApprovals |-> 0] }

StateFilters == { Undefined, "pending", "expired", "approved" }

NoFind == [op |-> "none"]

\* a reader's call and what it returned; forgotten at the next store write or
\* clock step, so that it always describes the store and the clock as they are
Found(op, arg, state, result) ==
  [op |-> op, arg |-> arg, state |-> state, result |-> result]

FinderInit ==
  /\ requests = <<>>
  /\ lastFind = NoFind

\* store.save(ApprovalWorkflow.create({ userId, ... }))
FinderCreate ==
  /\ Len(requests) < Cardinality(RequestIds)
  /\ \E config \in FinderConfigs, userId \in Requesters :
       LET r == [userId |-> userId] @@ [create(config, now) EXCEPT !.id = Len(requests) + 1] IN
       requests' = ApprovalStore_save(requests, r)
  /\ lastFind' = NoFind
  /\ UNCHANGED <<now, coreVars, unitVars, auditVars, retentionVars>>

\* store.save(ApprovalWorkflow.processAction(store.get(id), 'u1', action)),
\* nothing saved when processAction throws
FinderAct ==
  /\ \E i \in 1..Len(requests), action \in {"approve", "deny"} :
       LET got == ApprovalStore_get(requests, requests[i].id, now)[1]
           r == processAction(got, "u1", action, now) IN
       /\ r.error = "none"
       /\ requests' = ApprovalStore_save(requests, r.request)
  /\ lastFind' = NoFind
  /\ UNCHANGED <<now, coreVars, unitVars, auditVars, retentionVars>>

FinderGet ==
  /\ \E id \in RequestIds :
       lastFind' = Found("get", id, Undefined, ApprovalStore_get(requests, id, now))
  /\ UNCHANGED <<now, coreVars, unitVars, auditVars, retentionVars, requests>>

FinderFindByUser ==
  /\ \E userId \in Requesters, state \in StateFilters :
       lastFind' = Found("findByUser", userId, state,
                         ApprovalStore_findByUser(requests, userId, state, now))
  /\ UNCHANGED <<now, coreVars, unitVars, auditVars, retentionVars, requests>>

FinderFindPendingForApprover ==
  /\ \E approverId \in {"u1", "u2", "u4"} :
       lastFind' = Found("findPendingForApprover", approverId, Undefined,
                         ApprovalStore_findPendingForApprover(requests, approverId, now))
  /\ UNCHANGED <<now, coreVars, unitVars, auditVars, retentionVars, requests>>

FinderMinutePasses ==
  /\ now < MaxMinutes * MinuteMs
  /\ now' = now + MinuteMs
  /\ lastFind' = NoFind
  /\ UNCHANGED <<coreVars, unitVars, auditVars, retentionVars, requests>>

\* ------------------------------------------------------------------------
\* AuditLogger writing daily segment files and QueryEngine reading them.
\* Every write and sync succeeds here and a flush runs to its end before the
\* next call starts; SpecLogger has the interleavings and the failures.
\* ------------------------------------------------------------------------
DayTicks == 3       \* clock ticks in one UTC day
MaxDays == 2        \* the clock stops at the start of this day

DefaultLimit == 1000

\* Date.prototype.toISOString: the UTC calendar date and the time of day
toISOString(t) == [date |-> t \div DayTicks, time |-> t % DayTicks]

\* new Date(isoString)
ParseDate(iso) == iso.date * DayTicks + iso.time

\* JSON.stringify(event): the Date becomes its ISO string
JSON_stringify(event) == [event EXCEPT !.timestamp = toISOString(event.timestamp)]

\* JSON.parse(line) followed by event.timestamp = new Date(event.timestamp)
ParseLine(line) == [line EXCEPT !.timestamp = ParseDate(line.timestamp)]

\* the <date> of audit-<date>.jsonl, taken from the clock
getLogFilePath(t) == toISOString(t).date

\* { id, timestamp: new Date(), ...event }
AuditLogger_log(buf, event, id, t) ==
  Append(buf, [id |-> id, timestamp |-> t] @@ event)

AppendLines(dir, name, lines) ==
  [n \in (DOMAIN dir) \cup {name} |-> IF n = name
     THEN (IF n \in DOMAIN dir THEN dir[n] ELSE <<>>) \o lines
     ELSE dir[n]]

\* the whole buffer goes to the file named after the date of the flush
AuditLogger_flush(dir, buf, t) ==
  IF buf = <<>> THEN dir
  ELSE AppendLines(dir, getLogFilePath(t), [i \in 1..Len(buf) |-> JSON_stringify(buf[i])])

readLogFile(dir, name) == [i \in 1..Len(dir[name]) |-> ParseLine(dir[name][i])]

\* an absent optional number or Date of a query
Absent == -1

\* a JavaScript condition on an optional string, and on an optional number
Truthy(v) == v # Undefined /\ v # ""
TruthyNumber(n) == n # Absent /\ n # 0

\* new Date(date + 'T00:00:00Z')
FileDate(name) == name * DayTicks

\* a filter bound is a Date object, truthy whenever it is present
getLogFiles(dir, startTime, endTime) ==
  IF startTime = Absent /\ endTime = Absent THEN DOMAIN dir
  ELSE { name \in DOMAIN dir :
           /\ startTime # Absent => ~(FileDate(name) < startTime - DayTicks)
           /\ endTime # Absent => ~(FileDate(name) > endTime + DayTicks) }

\* files.sort(): date-named paths sort by date
RECURSIVE SortNames(_)
SortNames(names) ==
  IF names = {} THEN <<>>
  ELSE LET first == CHOOSE n \in names : \A m \in names : n <= m
       IN <<first>> \o SortNames(names \ {first})

matchesQuery(event, query) ==
  /\ ~(Truthy(query.orgId) /\ event.orgId # query.orgId)
  /\ ~(Truthy(query.workspaceId) /\ event.workspaceId # query.workspaceId)
  /\ ~(Truthy(query.userId) /\ event.userId # query.userId)
  /\ ~(Truthy(query.agentId) /\ event.agentId # query.agentId)
  /\ ~(Truthy(query.action) /\ event.action # query.action)
  /\ ~(Truthy(query.result) /\ event.result # query.result)
  /\ ~(query.startTime # Absent /\ event.timestamp < query.startTime)
  /\ ~(query.endTime # Absent /\ event.timestamp > query.endTime)

\* the matching events of the candidate files, file by file and line by line
RECURSIVE MatchingIn(_, _, _)
MatchingIn(dir, files, query) ==
  IF files = <<>> THEN <<>>
  ELSE SelectSeq(readLogFile(dir, Head(files)), LAMBDA e : matchesQuery(e, query))
         \o MatchingIn(dir, Tail(files), query)

Candidates(dir, query) == SortNames(getLogFiles(dir, query.startTime, query.endTime))

\* skips the first offset matches, then returns as soon as limit events are collected
RECURSIVE Collect(_, _, _, _)
Collect(matching, toSkip, limit, events) ==
  IF matching = <<>> THEN events
  ELSE IF toSkip > 0 THEN Collect(Tail(matching), toSkip - 1, limit, events)
  ELSE IF Len(events) + 1 >= limit THEN Append(events, Head(matching))
  ELSE Collect(Tail(matching), 0, limit, Append(events, Head(matching)))

QueryEngine_query(dir, query) ==
  LET limit == IF TruthyNumber(query.limit) THEN query.limit ELSE DefaultLimit
      offset == IF TruthyNumber(query.offset) THEN query.offset ELSE 0
  IN Collect(MatchingIn(dir, Candidates(dir, query), query), offset, limit, <<>>)

QueryEngine_count(dir, query) == Len(MatchingIn(dir, Candidates(dir, query), query))

QueryEngine_distinct(dir, query, field) ==
  LET m == MatchingIn(dir, Candidates(dir, query), query)
  IN { m[i][field] : i \in 1..Len(m) }

\* ---- inputs ----
EventIds == {1, 2}

AuditInputs ==
  { [orgId |-> "org1", workspaceId |-> "ws1", userId |-> "alice", agentId |-> "agent1",
     action |-> "tool_call", result |-> "success"],
    [orgId |-> "org1", workspaceId |-> "ws2", userId |-> Null, agentId |-> "agent2",
     action |-> "memory_write", result |-> "failure"],
    [orgId |-> "org2", workspaceId |-> "ws3", userId |-> "charlie", agentId |-> "agent3",
     action |-> "tool_call", result |-> "success"] }

Filter(orgId, workspaceId, userId, agentId, action, result) ==
  [orgId |-> orgId, workspaceId |-> workspaceId, userId |-> userId, agentId |-> agentId,
   action |-> action, result |-> result]

Filters ==
  { Filter("org1", Undefined, Undefined, Undefined, Undefined, Undefined),
    Filter("org1", "ws1", "alice", "agent1", Undefined, Undefined),
    Filter("org1", Undefined, Undefined, Undefined, "memory_write", "failure"),
    Filter("org2", Undefined, Undefined, Undefined, "tool_call", Undefined),
    Filter("", Undefined, Undefined, Undefined, Undefined, Undefined) }

TimeRanges ==
  { [startTime |-> Absent, endTime |-> Absent],
    [startTime |-> 0, endTime |-> 1],
    [startTime |-> 2, endTime |-> Absent],
    [startTime |-> Absent, endTime |-> 1] }

NoPaging == [limit |-> Absent, offset |-> Absent]

Pagings ==
  { [limit |-> l, offset |-> o] : l \in {Absent, 0, 1}, o \in {Absent, 1} }

UnpagedQueries == { f @@ r @@ NoPaging : f \in Filters, r \in TimeRanges }

\* filters with a time window and no paging, and one filter under every paging
Queries ==
  UnpagedQueries
    \cup { Filter("org1", Undefined, Undefined, Undefined, Undefined, Undefined)
             @@ [startTime |-> Absent, endTime |-> Absent] @@ pg : pg \in Pagings }

NoQuery == [op |-> "none"]

AuditInit ==
  /\ auditBuf = <<>>
  /\ segments = [n \in {} |-> <<>>]
  /\ logged = <<>>
  /\ lastQuery = NoQuery

\* await logger.log(event), the buffer below maxBufferSize
AuditLog ==
  /\ Len(logged) < Cardinality(EventIds)
  /\ \E event \in AuditInputs :
       /\ auditBuf' = AuditLogger_log(auditBuf, event, Len(logged) + 1, now)
       /\ logged' = AuditLogger_log(logged, event, Len(logged) + 1, now)
  /\ lastQuery' = NoQuery
  /\ UNCHANGED <<now, coreVars, unitVars, finderVars, retentionVars, segments>>

\* await logger.flush(), or the flush of the timer
AuditFlush ==
  /\ segments' = AuditLogger_flush(segments, auditBuf, now)
  /\ auditBuf' = <<>>
  /\ lastQuery' = NoQuery
  /\ UNCHANGED <<now, coreVars, unitVars, finderVars, retentionVars, logged>>

\* a reader's answer depends on the directory alone, not on the reads before it:
\* the model keeps one answer at a time, until the next write or clock tick
AuditQuery ==
  /\ lastQuery = NoQuery
  /\ \E query \in Queries :
       lastQuery' = [op |-> "query", query |-> query,
                     result |-> QueryEngine_query(segments, query)]
  /\ UNCHANGED <<now, coreVars, unitVars, finderVars, retentionVars, auditBuf, segments, logged>>

AuditCount ==
  /\ lastQuery = NoQuery
  /\ \E query \in UnpagedQueries :
       lastQuery' = [op |-> "count", query |-> query,
                     result |-> QueryEngine_count(segments, query)]
  /\ UNCHANGED <<now, coreVars, unitVars, finderVars, retentionVars, auditBuf, segments, logged>>

AuditDistinct ==
  /\ lastQuery = NoQuery
  /\ \E query \in UnpagedQueries :
       lastQuery' = [op |-> "distinct", query |-> query,
                     result |-> QueryEngine_distinct(segments, query, "orgId")]
  /\ UNCHANGED <<now, coreVars, unitVars, finderVars, retentionVars, auditBuf, segments, logged>>

AuditTick ==
  /\ now < MaxDays * DayTicks
  /\ now' = now + 1
  /\ lastQuery' = NoQuery
  /\ UNCHANGED <<coreVars, unitVars, finderVars, retentionVars, auditBuf, segments, logged>>

\* ------------------------------------------------------------------------
\* RetentionPolicy.enforce on a directory of log files.  A file name is a
\* sequence of one-character strings.
\* ------------------------------------------------------------------------
\* a directory: whether it exists and the names in it
Missing == [exists |-> FALSE, files |-> {}]

Dir(files) == [exists |-> TRUE, files |-> files]

IsDigit(c) == c \in {"0", "1", "2", "3", "4", "5", "6", "7", "8", "9"}

DigitValue(c) ==
  CASE c = "0" -> 0 [] c = "1" -> 1 [] c = "2" -> 2 [] c = "3" -> 3 [] c = "4" -> 4
    [] c = "5" -> 5 [] c = "6" -> 6 [] c = "7" -> 7 [] c = "8" -> 8 [] c = "9" -> 9

RECURSIVE ParseInt(_)
ParseInt(digits) ==
  IF digits = <<>> THEN 0
  ELSE ParseInt(SubSeq(digits, 1, Len(digits) - 1)) * 10 + DigitValue(digits[Len(digits)])

\* f.endsWith('.jsonl')
EndsWithJsonl(filename) ==
  /\ Len(filename) >= 6
  /\ SubSeq(filename, Len(filename) - 5, Len(filename)) = <<".", "j", "s", "o", "n", "l">>

\* /audit-(\d{4}-\d{2}-\d{2})\.jsonl/
DateNamePattern ==
  <<"a", "u", "d", "i", "t", "-", "\\d", "\\d", "\\d", "\\d", "-", "\\d", "\\d", "-", "\\d", "\\d", "\\.", "j", "s", "o", "n", "l">>

TokenMatches(token, c) ==
  IF token = "\\d" THEN IsDigit(c)
  ELSE IF token = "\\." THEN c = "."
  ELSE token = c

PatternAt(pattern, text, p) ==
  /\ p + Len(pattern) - 1 <= Len(text)
  /\ \A i \in 1..Len(pattern) : TokenMatches(pattern[i], text[p + i - 1])

NullDate == [kind |-> "null"]
InvalidDate == [kind |-> "invalid"]

\* new Date('YYYY-MM-DD'): midnight UTC of that date in clock ticks, tick 0 being
\* 2024-01-01T00:00Z.  Months count 31 days here, which is exact for the dates
\* from 2023-12-01 to 2024-01-31 and keeps the order of all others.
NewDate(text) ==
  LET y == ParseInt(SubSeq(text, 1, 4))
      m == ParseInt(SubSeq(text, 6, 7))
      d == ParseInt(SubSeq(text, 9, 10))
  IN IF m < 1 \/ m > 12 \/ d < 1 \/ d > 31 THEN InvalidDate
     ELSE [kind |-> "date", t |-> (((y - 2024) * 12 + (m - 1)) * 31 + (d - 1)) * DayTicks]

\* filename.match(...): the first position where the pattern matches
extractDateFromFilename(filename) ==
  IF \E p \in 1..Len(filename) : PatternAt(DateNamePattern, filename, p)
    THEN LET p == CHOOSE q \in 1..Len(filename) :
                    /\ PatternAt(DateNamePattern, filename, q)
                    /\ \A r \in 1..(q - 1) : ~PatternAt(DateNamePattern, filename, r)
         IN NewDate(SubSeq(filename, p + 6, p + 15))
    ELSE NullDate

\* the file names of the model
OldSegment == <<"a", "u", "d", "i", "t", "-", "2", "0", "2", "3", "-", "1", "2", "-", "3", "1", ".", "j", "s", "o", "n", "l">>
FirstSegment == <<"a", "u", "d", "i", "t", "-", "2", "0", "2", "4", "-", "0", "1", "-", "0", "1", ".", "j", "s", "o", "n", "l">>
SecondSegment == <<"a", "u", "d", "i", "t", "-", "2", "0", "2", "4", "-", "0", "1", "-", "0", "2", ".", "j", "s", "o", "n", "l">>
UndatedLog == <<"a", "u", "d", "i", "t", "-", "i", "n", "v", "a", "l", "i", "d", "-", "d", "a", "t", "e", ".", "j", "s", "o", "n", "l">>
NoSuchMonth == <<"a", "u", "d", "i", "t", "-", "2", "0", "2", "4", "-", "1", "3", "-", "0", "1", ".", "j", "s", "o", "n", "l">>
TextFile == <<"o", "t", "h", "e", "r", "-", "f", "i", "l", "e", ".", "t", "x", "t">>

FileNames == { OldSegment, FirstSegment, SecondSegment, UndatedLog, NoSuchMonth, TextFile }

Digits == <<"0", "1", "2", "3", "4", "5", "6", "7", "8", "9">>

TwoDigits(n) == << Digits[((n \div 10) % 10) + 1], Digits[(n % 10) + 1] >>

\* toISOString().split('T')[0] of a day count: YYYY-MM-DD, day 0 being
\* 2024-01-01, in the calendar of NewDate
DateText(date) ==
  LET y == 2024 + date \div 372
      m == ((date \div 31) % 12) + 1
      d == (date % 31) + 1
  IN TwoDigits(y \div 100) \o TwoDigits(y % 100) \o <<"-">> \o TwoDigits(m)
       \o <<"-">> \o TwoDigits(d)

\* `audit-${date}.jsonl`
LogFileName(date) ==
  <<"a", "u", "d", "i", "t", "-">> \o DateText(date) \o <<".", "j", "s", "o", "n", "l">>

\* the names the logger gives its files while the clock runs
SegmentFiles == { LogFileName(date) : date \in 0..MaxDays }

\* the date enforce reads from each name of the model
FileDates == [f \in FileNames \cup SegmentFiles |-> extractDateFromFilename(f)]

\* fileDate < cutoffDate: a comparison with an Invalid Date is false
DateBefore(fileDate, cutoff) == fileDate.kind = "date" /\ fileDate.t < cutoff

EmptyResult == [deleted |-> <<>>, archived |-> <<>>, kept |-> <<>>, errors |-> <<>>]

\* the state enforce works on: the two directories and the result so far
\* deleteFile: unlinkSync throws for the names in failing
deleteFile(st, filename, config, failing) ==
  IF ~config.dryRun /\ filename \in failing
    THEN [st EXCEPT !.result.errors = Append(@, filename)]
    ELSE [st EXCEPT !.logDir.files = IF config.dryRun THEN @ ELSE @ \ {filename},
                    !.result.deleted = Append(@, filename)]

\* archiveFile: mkdirSync runs before dryRun is looked at; renameSync throws for
\* the names in failing
archiveFile(st, filename, config, failing) ==
  LET made == IF ~st.archive.exists THEN [st EXCEPT !.archive = Dir({})] ELSE st
  IN IF ~config.dryRun /\ filename \in failing
       THEN [made EXCEPT !.result.errors = Append(@, filename)]
       ELSE IF config.dryRun
         THEN [made EXCEPT !.result.archived = Append(@, filename)]
         ELSE [made EXCEPT !.logDir.files = @ \ {filename},
                           !.archive.files = @ \cup {filename},
                           !.result.archived = Append(@, filename)]

\* a loop body that removes every dated file, whatever the cutoff
EnforceOne_NoCutoff(st, filename, config, cutoff, failing) ==
  IF FileDates[filename] = NullDate THEN [st EXCEPT !.result.kept = Append(@, filename)]
  ELSE IF config.archiveDir
    THEN archiveFile(st, filename, config, failing)
    ELSE deleteFile(st, filename, config, failing)

\* one pass of the for loop of enforce
EnforceOne(st, filename, config, cutoff, failing) ==
  LET fileDate == FileDates[filename] IN
  IF fileDate = NullDate THEN [st EXCEPT !.result.kept = Append(@, filename)]
  ELSE IF DateBefore(fileDate, cutoff)
    THEN IF config.archiveDir
           THEN archiveFile(st, filename, config, failing)
           ELSE deleteFile(st, filename, config, failing)
    ELSE [st EXCEPT !.result.kept = Append(@, filename)]

\* readdirSync order: the model takes the names in one fixed order
RECURSIVE EnforceAll(_, _, _, _, _)
EnforceAll(st, files, config, cutoff, failing) ==
  IF files = {} THEN st
  ELSE LET f == CHOOSE x \in files : TRUE
       IN EnforceAll(EnforceOne(st, f, config, cutoff, failing), files \ {f},
                     config, cutoff, failing)

\* enforce(logDir) at time t: [logDir, archive, result]
enforce(logDir, archive, config, t, failing) ==
  IF ~logDir.exists
    THEN [logDir |-> logDir, archive |-> archive, result |-> EmptyResult]
    ELSE EnforceAll([logDir |-> logDir, archive |-> archive, result |-> EmptyResult],
                    { f \in logDir.files : EndsWithJsonl(f) }, config,
                    t - config.retentionDays * DayTicks, failing)

\* ---- inputs ----
\* archiveDir: whether one is configured
RetentionConfigs ==
  { [retentionDays |-> r, archiveDir |-> a, dryRun |-> d] :
      r \in {0, 1}, a \in BOOLEAN, d \in BOOLEAN }

NoEnforce == [op |-> "none"]

RetentionInit ==
  /\ retLogDir = Missing
  /\ retArchive = Missing
  /\ lastEnforce = NoEnforce

\* a file appears in the log directory (ensureLogDirectory made the directory)
RetentionWrite ==
  /\ \E f \in FileNames :
       retLogDir' = Dir(retLogDir.files \cup {f})
  /\ lastEnforce' = NoEnforce
  /\ UNCHANGED <<now, coreVars, unitVars, finderVars, auditVars, retArchive>>

\* await new RetentionPolicy(config).enforce(logDir); the file system refuses
\* to remove or move the names in failing (a dry run asks it for neither)
RetentionEnforce ==
  /\ \E config \in RetentionConfigs :
     \E failing \in (IF config.dryRun THEN { {} } ELSE { {}, {OldSegment} }) :
       LET r == enforce(retLogDir, retArchive, config, now, failing) IN
       /\ retLogDir' = r.logDir
       /\ retArchive' = r.archive
       /\ lastEnforce' = [op |-> "enforce", config |-> config, result |-> r.result,
                          logBefore |-> retLogDir, archiveBefore |-> retArchive]
  /\ UNCHANGED <<now, coreVars, unitVars, finderVars, auditVars>>

RetentionTick ==
  /\ now < MaxDays * DayTicks
  /\ now' = now + 1
  /\ lastEnforce' = NoEnforce
  /\ UNCHANGED <<coreVars, unitVars, finderVars, auditVars, retLogDir, retArchive>>

\* ------------------------------------------------------------------------
\* RetentionPolicy.enforce on the directory the AuditLogger writes
\* ------------------------------------------------------------------------
\* readdirSync(logDir) of the logger's directory
SegmentDir(dir) == Dir({ LogFileName(date) : date \in DOMAIN dir })

\* the events of the files of dir that are no longer among the names in kept
EventsRemoved(dir, kept) ==
  UNION { { ParseLine(dir[date][i]) : i \in 1..Len(dir[date]) } :
          date \in { d \in DOMAIN dir : LogFileName(d) \notin kept } }

SweepConfigs ==
  { [retentionDays |-> r, archiveDir |-> a, dryRun |-> FALSE] :
      r \in {0, 1}, a \in BOOLEAN }

NoSweep == [op |-> "none"]

SweepInit == lastSweep = NoSweep

\* await new RetentionPolicy(config).enforce(logDir) on the logger's directory:
\* the files it unlinks or renames leave the directory with all their lines
SweepEnforce ==
  /\ \E config \in SweepConfigs :
       LET r == enforce(SegmentDir(segments), Missing, config, now, {})
           kept == r.logDir.files IN
       /\ segments' = [date \in { d \in DOMAIN segments : LogFileName(d) \in kept } |->
                         segments[date]]
       /\ lastSweep' = [op |-> "enforce", config |-> config, at |-> now,
                        removed |-> EventsRemoved(segments, kept), result |-> r.result]
  /\ lastQuery' = NoQuery
  /\ UNCHANGED <<now, coreVars, finderVars, retentionVars, auditBuf, logged,
                 lastAttempt, lastIncludes, lastRedact, patternArrays, redactors>>

\* ------------------------------------------------------------------------
\* checkPermission on a context as the caller built it (permission-engine.ts)
\* ------------------------------------------------------------------------
\* the properties of PermissionContext a caller leaves out (they read undefined)
AbsentFields == { {}, {"userRoles"}, {"policies"}, {"userRoles", "policies"} }

\* how the promise of an async call settles
Returned(decision) == [threw |-> FALSE, decision |-> decision]
Rejected(error) == [threw |-> TRUE, error |-> error]

\* engine.checkPermission(context, resource, action, targetScope) where the
\* properties named in `absent` are undefined. getEffectiveRoles hands
\* context.userRoles to getHighestRole, whose roles.filter(...) is a TypeError
\* on undefined: the promise rejects before any decision is built or logged.
\* `context.policies && context.policies.length > 0` is falsy for undefined
\* as it is for an empty list.
checkPermissionOf(pc, context, absent, resource, action, targetScope, t, ttlMs) ==
  IF "userRoles" \in absent
    THEN [outcome |-> Rejected("TypeError"), pc |-> pc, logged |-> <<>>]
    ELSE LET passed == IF "policies" \in absent
                         THEN [context EXCEPT !.policies = <<>>]
                         ELSE context
             r == checkPermission(pc, passed, resource, action, targetScope, t, ttlMs)
         IN [outcome |-> Returned(r.decision), pc |-> r.pc, logged |-> r.logged]

\* the contexts handed to it: both role lists, three of the policy lists
AttemptContexts ==
  { c \in Contexts :
      c.policies \in { <<>>, << ViewerToolRule >>, << ViewerAuditRule >> } }

NoAttempt == [op |-> "none"]

AttemptInit == lastAttempt = NoAttempt

\* await engine.checkPermission(context, resource, action, targetScope)
AttemptCheck ==
  \E context \in AttemptContexts, absent \in AbsentFields, request \in Requests,
     targetScope \in TargetScopes :
    LET r == checkPermissionOf(policyCache, context, absent, request.resource,
                               request.action, targetScope, now, CacheTtl) IN
    /\ r.pc.hits + r.pc.misses <= MaxLookups
    /\ policyCache' = r.pc
    /\ lastAttempt' = [op |-> "checkPermission", context |-> context, absent |-> absent,
                       resource |-> request.resource, action |-> request.action,
                       targetScope |-> targetScope, outcome |-> r.outcome,
                       logged |-> r.logged]
    /\ UNCHANGED <<now, lastCall, lastDecision, lastPath, lastLogged, lastRepeat,
                   approvalVars, storeVars, roleVars, cacheVars, loggerVars,
                   finderVars, auditVars, retentionVars, lastIncludes, lastRedact, lateVars>>

\* ------------------------------------------------------------------------
\* roleIncludes and hasRoleOrHigher applied to the defined roles
\* ------------------------------------------------------------------------
\* type Role = OrgRole | WorkspaceRole
Roles == {"org:owner", "org:admin", "org:member", "ws:admin", "ws:member", "ws:viewer"}

\* the userRoles arrays of up to two grants
UserRoleArrays ==
  {<<>>} \cup { <<g>> : g \in GrantChoices } \cup { <<g, h>> : g, h \in GrantChoices }

NoIncludes == [op |-> "none"]

HierarchyInit == lastIncludes = NoIncludes

\* roleIncludes(roleA, roleB)
RoleIncludes ==
  /\ \E roleA \in Roles, roleB \in Roles :
       lastIncludes' = [op |-> "roleIncludes", roleA |-> roleA, roleB |-> roleB,
                        result |-> roleIncludes(roleA, roleB)]
  /\ UNCHANGED <<now, coreVars, finderVars, auditVars, retentionVars, lastAttempt, lastRedact, lateVars>>

\* hasRoleOrHigher(userRoles, requiredRole, scope)
HasRoleOrHigher ==
  /\ \E userRoles \in UserRoleArrays, requiredRole \in Roles, scope \in {OrgId, "ws1"} :
       lastIncludes' = [op |-> "hasRoleOrHigher", userRoles |-> userRoles,
                        requiredRole |-> requiredRole, scope |-> scope,
                        highest |-> getHighestRole(userRoles, scope),
                        result |-> hasRoleOrHigher(userRoles, requiredRole, scope)]
  /\ UNCHANGED <<now, coreVars, finderVars, auditVars, retentionVars, lastAttempt, lastRedact, lateVars>>

\* ------------------------------------------------------------------------
\* PIIRedactor (pii-redactor.ts). Key names are sequences of characters;
\* JSON values are tagged records.
\* ------------------------------------------------------------------------
JsonNull == [t |-> "null"]
JsonNumber(n) == [t |-> "num", n |-> n]
JsonBoolean(b) == [t |-> "bool", b |-> b]
JsonString(text) == [t |-> "str", s |-> text]
JsonArray(items) == [t |-> "arr", items |-> items]
\* an object is its own properties in insertion order (Object.entries)
JsonObject(entries) == [t |-> "obj", entries |-> entries]
Entry(key, value) == [key |-> key, value |-> value]

UpperCase == <<"A", "B", "C", "D", "E", "F", "G", "H", "I", "J", "K", "L", "M",
               "N", "O", "P", "Q", "R", "S", "T", "U", "V", "W", "X", "Y", "Z">>
LowerCase == <<"a", "b", "c", "d", "e", "f", "g", "h", "i", "j", "k", "l", "m",
               "n", "o", "p", "q", "r", "s", "t", "u", "v", "w", "x", "y", "z">>

\* the case folding of the i flag, for ASCII letters
ToLowerCase(c) ==
  IF \E i \in 1..26 : UpperCase[i] = c
    THEN LowerCase[CHOOSE i \in 1..26 : UpperCase[i] = c]
    ELSE c

\* regex tokens: a literal character, and an optional character class [..]?
Lit(c) == [chars |-> {c}, optional |-> FALSE]
Opt(chars) == [chars |-> chars, optional |-> TRUE]

\* the sensitivePatterns of isSensitiveKey, all with the i flag
sensitivePatterns ==
  << <<Lit("p"), Lit("a"), Lit("s"), Lit("s"), Lit("w"), Lit("o"), Lit("r"), Lit("d")>>,
     <<Lit("s"), Lit("e"), Lit("c"), Lit("r"), Lit("e"), Lit("t")>>,
     <<Lit("t"), Lit("o"), Lit("k"), Lit("e"), Lit("n")>>,
     <<Lit("a"), Lit("p"), Lit("i"), Opt({"_", "-"}), Lit("k"), Lit("e"), Lit("y")>>,
     <<Lit("a"), Lit("u"), Lit("t"), Lit("h")>>,
     <<Lit("c"), Lit("r"), Lit("e"), Lit("d"), Lit("e"), Lit("n"), Lit("t"), Lit("i"), Lit("a"), Lit("l")>>,
     <<Lit("p"), Lit("r"), Lit("i"), Lit("v"), Lit("a"), Lit("t"), Lit("e"), Opt({"_", "-"}), Lit("k"), Lit("e"), Lit("y")>> >>

\* the tokens from the i-th on match the text from position p on
RECURSIVE RegexMatchesAt(_, _, _, _)
RegexMatchesAt(pattern, i, text, p) ==
  IF i > Len(pattern)
    THEN TRUE
    ELSE LET here == p <= Len(text) /\ ToLowerCase(text[p]) \in pattern[i].chars IN
      \/ here /\ RegexMatchesAt(pattern, i + 1, text, p + 1)
      \/ pattern[i].optional /\ RegexMatchesAt(pattern, i + 1, text, p)

\* pattern.test(key) for a pattern without anchors
RegexTest(pattern, text) ==
  \E p \in 1..(Len(text) + 1) : RegexMatchesAt(pattern, 1, text, p)

\* a test of the whole key against the first word of each pattern
isSensitiveKey_WholeName(key) ==
  \E i \in 1..Len(sensitivePatterns) :
    /\ Len(key) = Len(sensitivePatterns[i])
    /\ RegexMatchesAt(sensitivePatterns[i], 1, key, 1)

isSensitiveKey(key) ==
  \E i \in 1..Len(sensitivePatterns) : RegexTest(sensitivePatterns[i], key)

\* DEFAULT_REDACTION_PATTERNS, each with the model strings its regex matches
\* as a whole
DEFAULT_REDACTION_PATTERNS ==
  << [name |-> "API_KEY", matches |-> {"sk_live_abcdefghijklmnop"},
      replacement |-> "[API_KEY_REDACTED]"],
     [name |-> "SSN", matches |-> {"123-45-6789"}, replacement |-> "***-**-****"],
     [name |-> "SSN_NO_DASHES", matches |-> {"123456789"}, replacement |-> "*********"],
     [name |-> "CREDIT_CARD", matches |-> {"4111-1111-1111-1111"},
      replacement |-> "****-****-****-****"],
     [name |-> "EMAIL", matches |-> {"user@example.com"}, replacement |-> "[EMAIL_REDACTED]"],
     [name |-> "PHONE", matches |-> {"555-123-4567"}, replacement |-> "[PHONE_REDACTED]"] >>

\* redactString: value.replace(pattern.regex, pattern.replacement), pattern
\* after pattern
RECURSIVE ReplaceFrom(_, _, _)
ReplaceFrom(patterns, i, value) ==
  IF i > Len(patterns)
    THEN value
    ELSE ReplaceFrom(patterns, i + 1,
                     IF value \in patterns[i].matches THEN patterns[i].replacement ELSE value)

redactString(patterns, value) == ReplaceFrom(patterns, 1, value)

\* the key names of the objects handed to redactObject
NameKey == <<"n", "a", "m", "e">>
PlainKey == <<"k", "e", "y">>
PasswordKey == <<"p", "a", "s", "s", "w", "o", "r", "d">>
UserPasswordKey == <<"u", "s", "e", "r", "P", "a", "s", "s", "w", "o", "r", "d">>
ApiKeyKey == <<"A", "P", "I", "_", "K", "E", "Y">>
AuthorKey == <<"a", "u", "t", "h", "o", "r">>
PrivateKeyKey == <<"p", "r", "i", "v", "a", "t", "e", "-", "k", "e", "y">>
AccessTokenKey == <<"a", "c", "c", "e", "s", "s", "T", "o", "k", "e", "n">>

RedactKeys ==
  { NameKey, PlainKey, PasswordKey, UserPasswordKey,
    ApiKeyKey, AuthorKey, PrivateKeyKey, AccessTokenKey }

\* isSensitiveKey of each of those names (a key name decides it alone)
SensitiveKeys == { key \in RedactKeys : isSensitiveKey(key) }

REDACTED == "[REDACTED]"

\* redactObject(obj): the value returned; every branch builds a new array or
\* object, or returns a primitive
RECURSIVE redactObject(_, _)
redactObject(patterns, obj) ==
  CASE obj.t = "null" -> obj
    [] obj.t = "str" -> JsonString(redactString(patterns, obj.s))
    [] obj.t \in {"num", "bool"} -> obj
    [] obj.t = "arr" ->
         JsonArray([i \in 1..Len(obj.items) |-> redactObject(patterns, obj.items[i])])
    [] obj.t = "obj" ->
         JsonObject([i \in 1..Len(obj.entries) |->
           IF obj.entries[i].key \in SensitiveKeys
             THEN Entry(obj.entries[i].key, JsonString(REDACTED))
             ELSE Entry(obj.entries[i].key, redactObject(patterns, obj.entries[i].value))])

\* ---- inputs ----
Leaves ==
  { JsonNull, JsonNumber(42), JsonBoolean(TRUE), JsonString("hello"),
    JsonString("123-45-6789") }

Shapes == {"leaf", "flat", "nested", "array", "list", "pair"}

\* the value of shape `shape` over two keys and a leaf
Build(shape, outerKey, innerKey, leaf) ==
  CASE shape = "leaf" -> leaf
    [] shape = "flat" -> JsonObject(<< Entry(outerKey, leaf) >>)
    [] shape = "nested" ->
         JsonObject(<< Entry(outerKey, JsonObject(<< Entry(innerKey, leaf) >>)) >>)
    [] shape = "array" ->
         JsonObject(<< Entry(outerKey,
                             JsonArray(<< JsonObject(<< Entry(innerKey, leaf) >>), leaf >>)) >>)
    [] shape = "list" -> JsonArray(<< leaf, JsonObject(<< Entry(innerKey, leaf) >>) >>)
    [] shape = "pair" ->
         JsonObject(<< Entry(outerKey, leaf),
                       Entry(innerKey, JsonArray(<< leaf, JsonNumber(7) >>)) >>)

DefaultArray == 0       \* the reference of the DEFAULT_REDACTION_PATTERNS array
DefaultRedactor == 0    \* export const defaultRedactor = new PIIRedactor()

NoRedact == [op |-> "none"]

RedactorInit == lastRedact = NoRedact

\* defaultRedactor.redactObject(obj); no statement of it assigns to obj or to
\* a value reachable from it, so the caller's value is afterwards what it was
RedactObject ==
  /\ \E shape \in Shapes, outerKey \in RedactKeys, innerKey \in RedactKeys, leaf \in Leaves :
       /\ shape = "pair" => outerKey # innerKey
       /\ LET obj == Build(shape, outerKey, innerKey, leaf) IN
          lastRedact' = [op |-> "redactObject", input |-> obj, inputAfter |-> obj,
                         result |-> redactObject(patternArrays[redactors[DefaultRedactor]], obj)]
  /\ UNCHANGED <<now, coreVars, finderVars, auditVars, retentionVars, lastAttempt, lastIncludes, lateVars>>

\* defaultRedactor.redactString(value)
RedactString ==
  /\ \E leaf \in { l \in Leaves : l.t = "str" } :
       lastRedact' = [op |-> "redactString", input |-> leaf, inputAfter |-> leaf,
                      result |-> JsonString(redactString(patternArrays[redactors[DefaultRedactor]], leaf.s))]
  /\ UNCHANGED <<now, coreVars, finderVars, auditVars, retentionVars, lastAttempt, lastIncludes, lateVars>>

\* ------------------------------------------------------------------------
\* checkPermission for a user with the grants an administrator has made
\* ------------------------------------------------------------------------
HeldRequests ==
  { [resource |-> "tool", action |-> "execute"],
    [resource |-> "agent", action |-> "read"],
    [resource |-> "audit", action |-> "delete"] }

\* await engine.checkPermission({orgId, workspaceId: 'ws1', userRoles}, resource,
\* action, targetScope) with the grants held and no policies
CheckHeldGrants ==
  \E request \in HeldRequests, targetScope \in TargetScopes :
    LET context == [orgId |-> OrgId, workspaceId |-> "ws1", userRoles |-> heldGrants,
                    policies |-> <<>>]
        r == checkPermissionOf(policyCache, context, {}, request.resource,
                               request.action, targetScope, now, CacheTtl) IN
    /\ policyCache' = r.pc
    /\ lastAttempt' = [op |-> "checkPermission", context |-> context, absent |-> {},
                       resource |-> request.resource, action |-> request.action,
                       targetScope |-> targetScope, outcome |-> r.outcome,
                       logged |-> r.logged]
    /\ UNCHANGED <<now, lastCall, lastDecision, lastPath, lastLogged, lastRepeat,
                   approvalVars, storeVars, roleVars, cacheVars, loggerVars,
                   finderVars, auditVars, retentionVars, lastIncludes, lastRedact, lateVars>>

\* ------------------------------------------------------------------------
\* PIIRedactor instances and the arrays their this.patterns refer to
\* ------------------------------------------------------------------------
MaxRedactors == 2   \* instances made besides defaultRedactor
MaxAdded == 1       \* patterns pushed onto one array

ZipPattern == [name |-> "ZIP", matches |-> {"94103"}, replacement |-> "[ZIP_REDACTED]"]

CustomPatterns == { ZipPattern }

\* the patterns of an array that callers pushed or passed in
Added(array) == SelectSeq(array, LAMBDA q : q \in CustomPatterns)

\* the constructor's optional argument: left out, or an array literal
NoArgument == [given |-> FALSE]
Given(array) == [given |-> TRUE, array |-> array]

CustomArrays == { NoArgument, Given(<<>>), Given(<< ZipPattern >>) }

PatternNames == { "SSN", "ZIP" }

\* a reference no array has yet
NewRef(arrays) ==
  CHOOSE r \in 0..Cardinality(DOMAIN arrays) :
    r \notin DOMAIN arrays /\ \A q \in 0..(r - 1) : q \in DOMAIN arrays

\* the arrays still referred to: the exported constant and every this.patterns
Live(arrays, instances) ==
  [r \in {DefaultArray} \cup { instances[i] : i \in DOMAIN instances } |-> arrays[r]]

\* constructor(customPatterns?): this.patterns = customPatterns ||
\* DEFAULT_REDACTION_PATTERNS, the array itself and no copy of it ([] is truthy)
PIIRedactor_new(arrays, instances, id, customPatterns) ==
  IF ~customPatterns.given
    THEN [arrays |-> arrays, instances |-> instances @@ (id :> DefaultArray)]
    ELSE LET r == NewRef(arrays) IN
         [arrays |-> arrays @@ (r :> customPatterns.array),
          instances |-> instances @@ (id :> r)]

\* addPattern(pattern): this.patterns.push(pattern), in place
addPattern(arrays, instances, id, pattern) ==
  [arrays |-> [arrays EXCEPT ![instances[id]] = Append(@, pattern)],
   instances |-> instances]

\* removePattern(name): this.patterns = this.patterns.filter(p => p.name !== name),
\* a new array
removePattern(arrays, instances, id, name) ==
  LET r == NewRef(arrays)
      filtered == SelectSeq(arrays[instances[id]], LAMBDA q : q.name # name)
      moved == [instances EXCEPT ![id] = r]
  IN [arrays |-> Live(arrays @@ (r :> filtered), moved), instances |-> moved]

PatternInit ==
  /\ patternArrays = (DefaultArray :> DEFAULT_REDACTION_PATTERNS)
  /\ redactors = (DefaultRedactor :> DefaultArray)

\* new PIIRedactor() or new PIIRedactor([...])
NewRedactor ==
  /\ Cardinality(DOMAIN redactors) <= MaxRedactors
  /\ \E customPatterns \in CustomArrays :
       LET r == PIIRedactor_new(patternArrays, redactors,
                                Cardinality(DOMAIN redactors), customPatterns) IN
       /\ patternArrays' = r.arrays
       /\ redactors' = r.instances
  /\ UNCHANGED <<now, coreVars, finderVars, auditVars, retentionVars,
                 lastAttempt, lastIncludes, lastRedact, lastSweep>>

\* redactor.addPattern(pattern)
AddPattern ==
  /\ \E id \in DOMAIN redactors, pattern \in CustomPatterns :
       /\ Len(Added(patternArrays[redactors[id]])) < MaxAdded
       /\ LET r == addPattern(patternArrays, redactors, id, pattern) IN
          /\ patternArrays' = r.arrays
          /\ redactors' = r.instances
  /\ UNCHANGED <<now, coreVars, finderVars, auditVars, retentionVars,
                 lastAttempt, lastIncludes, lastRedact, lastSweep>>

\* redactor.removePattern(name)
RemovePattern ==
  /\ \E id \in DOMAIN redactors, name \in PatternNames :
       LET r == removePattern(patternArrays, redactors, id, name) IN
       /\ patternArrays' = r.arrays
       /\ redactors' = r.instances
  /\ UNCHANGED <<now, coreVars, finderVars, auditVars, retentionVars,
                 lastAttempt, lastIncludes, lastRedact, lastSweep>>

Init ==
  /\ now = 0
  /\ PermInit
  /\ ApprovalInit
  /\ StoreInit
  /\ RoleInit
  /\ CacheInit
  /\ LoggerInit
  /\ FinderInit
  /\ AuditInit
  /\ RetentionInit
  /\ AttemptInit
  /\ HierarchyInit
  /\ RedactorInit
  /\ SweepInit
  /\ PatternInit

Next == CheckPermission \/ ClearCache \/ Tick

Spec == Init /\ [][Next]_vars

ApprovalNext == Create \/ ProcessAction \/ Cancel \/ CheckExpiration \/ MinutePasses

SpecApproval == Init /\ [][ApprovalNext]_vars

StoreNext ==
  \/ StoreCreate
  \/ \E w \in WorkerIds : WorkerRead(w) \/ WorkerProcess(w) \/ WorkerSave(w)

SpecStore == Init /\ [][StoreNext]_vars

RoleNext == GrantRole \/ GetEffectiveRoles

SpecRoles == Init /\ [][RoleNext]_vars

CacheNext ==
  \/ CacheConstruct
  \/ CacheSet
  \/ CacheGet
  \/ CacheClearExpired
  \/ CacheInvalidateUser
  \/ CacheInvalidateResource
  \/ CacheClear
  \/ Tick

SpecCache == Init /\ [][CacheNext]_vars

LoggerNext ==
  \/ Log
  \/ Flush
  \/ TimerFlush
  \/ Close
  \/ \E t \in TaskIds : WriteToStream(t) \/ SyncStream(t) \/ SyncFails(t)
  \/ StreamWrites
  \/ StreamFails
  \/ EndStream
  \/ StreamFinished

SpecLogger == Init /\ [][LoggerNext]_vars

FinderNext ==
  \/ FinderCreate
  \/ FinderAct
  \/ FinderGet
  \/ FinderFindByUser
  \/ FinderFindPendingForApprover
  \/ FinderMinutePasses

SpecFinders == Init /\ [][FinderNext]_vars

AuditNext ==
  \/ AuditLog
  \/ AuditFlush
  \/ AuditQuery
  \/ AuditCount
  \/ AuditDistinct
  \/ AuditTick

SpecAudit == Init /\ [][AuditNext]_vars

RetentionNext == RetentionWrite \/ RetentionEnforce \/ RetentionTick

SpecRetention == Init /\ [][RetentionNext]_vars

AttemptNext == AttemptCheck \/ ClearCache

SpecAttempts == Init /\ [][AttemptNext]_vars

HierarchyNext == RoleIncludes \/ HasRoleOrHigher

SpecHierarchy == Init /\ [][HierarchyNext]_vars

RedactorNext == RedactObject \/ RedactString

SpecRedactor == Init /\ [][RedactorNext]_vars

HeldNext == GrantRole \/ CheckHeldGrants

SpecHeldGrants == Init /\ [][HeldNext]_vars

\* the logger with a file system that never fails and without close()
SoundLoggerNext ==
  \/ Log
  \/ Flush
  \/ TimerFlush
  \/ \E t \in TaskIds : WriteToStream(t) \/ SyncStream(t)
  \/ StreamWrites

SpecSoundLogger == Init /\ [][SoundLoggerNext]_vars

SweepNext == AuditLog \/ AuditFlush \/ SweepEnforce \/ AuditTick

SpecSweep == Init /\ [][SweepNext]_vars

PatternNext == NewRedactor \/ AddPattern \/ RemovePattern

SpecPatterns == Init /\ [][PatternNext]_vars

\* ------------------------------------------------------------------------
\* Properties of the approval workflow
\* ------------------------------------------------------------------------
\* the latest operation was a processAction that recorded an action
Appended ==
  /\ lastOp.op = "processAction"
  /\ lastOp.error = "none"
  /\ Len(heldRequest.approvals) = Len(lastOp.before.approvals) + 1

PastDue(r, t) == r.state = "pending" /\ t > r.expiresAt

ApproverSet(r) == {r.approvers[i] : i \in 1..Len(r.approvers)}

ActedSet(r) == {r.approvals[i].approverId : i \in 1..Len(r.approvals)}

ApprovedBy(r) == {Approves(r)[i].approverId : i \in 1..Len(Approves(r))}

\* C2: approved, denied, expired and cancelled are absorbing: on a request in
\* one of them processAction and cancel fail with an error and
\* checkExpiration returns it unchanged, so the request the caller holds stays
\* the same value, approvals included.
C2_TerminalAbsorbing ==
  (lastOp.op \in {"processAction", "cancel", "checkExpiration"}
     /\ IsTerminal(lastOp.before.state))
    => /\ heldRequest = lastOp.before
       /\ lastOp.op \in {"processAction", "cancel"} => lastOp.error # "none"

\* C2 witness: cancel refused on an approved request that holds approvals
C2_Witness ==
  /\ lastOp.op = "cancel"
  /\ lastOp.before.state = "approved"
  /\ lastOp.error = "InvalidState"
  /\ Len(heldRequest.approvals) > 0

\* C4: a pending request past its expiresAt never becomes approved or denied:
\* processAction by any approverId with any action returns it expired with
\* the approvals untouched, and checkExpiration returns it expired.
C4_PastDueExpires ==
  (lastOp.op \in {"processAction", "cancel", "checkExpiration"}
     /\ PastDue(lastOp.before, lastOp.at))
    => /\ heldRequest.state \notin {"approved", "denied"}
       /\ lastOp.op = "processAction" =>
            /\ lastOp.error = "none"
            /\ heldRequest.state = "expired"
            /\ heldRequest.approvals = lastOp.before.approvals
       /\ lastOp.op = "checkExpiration" => heldRequest.state = "expired"

\* C4 witness: the approval that would have completed the request arrives
\* after expiresAt and the request comes back expired
C4_Witness ==
  /\ lastOp.op = "processAction"
  /\ PastDue(lastOp.before, lastOp.at)
  /\ lastOp.action = "approve"
  /\ IsApprover(lastOp.before, lastOp.approverId)
  /\ ~HasActed(lastOp.before, lastOp.approverId)
  /\ Len(lastOp.before.approvals) > 0
  /\ heldRequest.state = "expired"

ApprovalsWellFormed(r) ==
  /\ \A i \in 1..Len(r.approvals) : IsApprover(r, r.approvals[i].approverId)
  /\ \A i, j \in 1..Len(r.approvals) :
       r.approvals[i].approverId = r.approvals[j].approverId => i = j

NotEntitled(r, approverId) == ~IsApprover(r, approverId) \/ HasActed(r, approverId)

\* C5 as stated: every approvals entry is by a member of approvers, no
\* approverId appears twice, and a processAction by a non-approver or by an
\* approver who already acted raises an error and returns no request.
C5_Original ==
  /\ heldRequest # NoRequest => ApprovalsWellFormed(heldRequest)
  /\ (lastOp.op = "processAction" /\ NotEntitled(lastOp.before, lastOp.approverId))
       => (lastOp.error # "none" /\ heldRequest = lastOp.before)

\* C5 amended: as C5, except that on a pending request past its expiresAt the
\* expiry check comes first: processAction raises no error and returns the
\* request with state expired and the approvals unchanged.
C5_ApprovalsByApproversOnce ==
  /\ heldRequest # NoRequest => ApprovalsWellFormed(heldRequest)
  /\ (lastOp.op = "processAction" /\ NotEntitled(lastOp.before, lastOp.approverId))
       => \/ lastOp.error # "none" /\ heldRequest = lastOp.before
          \/ /\ PastDue(lastOp.before, lastOp.at)
             /\ lastOp.error = "none"
             /\ heldRequest = [lastOp.before EXCEPT !.state = "expired"]

\* C5 witness: an approver who already acted is refused on a pending request
C5_Witness ==
  /\ lastOp.op = "processAction"
  /\ lastOp.error = "Duplicate"
  /\ heldRequest.state = "pending"
  /\ HasActed(heldRequest, lastOp.approverId)

MajorityExpected(r) ==
  IF Len(Approves(r)) >= r.requiredApprovals THEN "approved"
  ELSE IF Len(Approves(r)) + Cardinality(ApproverSet(r) \ ActedSet(r)) < r.requiredApprovals
    THEN "denied"
  ELSE "pending"

\* C6: after each recorded action on a majority request the state is approved
\* once the approve count reaches requiredApprovals, denied once the approve
\* count plus the number of approvers who have not yet acted is below
\* requiredApprovals, and pending otherwise.
C6_MajorityRule ==
  (Appended /\ heldRequest.type = "majority")
    => heldRequest.state = MajorityExpected(heldRequest)

\* C7: a sequential request is approved exactly when every approver approved
\* in the order of the approvers list; a deny, or an approve by another
\* approver than the one at the next position, denies it at that action.
C7_SequentialRule ==
  (Appended /\ heldRequest.type = "sequential") =>
    LET pos == Len(lastOp.before.approvals) + 1 IN
    /\ heldRequest.state = "approved" <=>
         /\ Denials(heldRequest) = <<>>
         /\ [i \in 1..Len(heldRequest.approvals) |-> heldRequest.approvals[i].approverId]
              = heldRequest.approvers
    /\ lastOp.action = "deny" => heldRequest.state = "denied"
    /\ (lastOp.action = "approve" /\ heldRequest.approvers[pos] # lastOp.approverId)
         => heldRequest.state = "denied"
    /\ (lastOp.action = "approve" /\ heldRequest.approvers[pos] = lastOp.approverId
          /\ pos < Len(heldRequest.approvers))
         => heldRequest.state = "pending"

\* C7 witness: approvers[1] approves before approvers[0] has acted
C7_Witness ==
  /\ Appended
  /\ heldRequest.type = "sequential"
  /\ lastOp.before.approvals = <<>>
  /\ lastOp.action = "approve"
  /\ Len(heldRequest.approvers) >= 2
  /\ lastOp.approverId = heldRequest.approvers[2]
  /\ heldRequest.state = "denied"

UnanimousExpected(r) ==
  IF Denials(r) # <<>> THEN "denied"
  ELSE IF ApproverSet(r) \subseteq ApprovedBy(r) THEN "approved"
  ELSE "pending"

\* C8: on a unanimous request the first deny denies it at once, it is
\* approved exactly when every approver of the approvers list has approved,
\* and it is pending before that.
C8_UnanimousRule ==
  (Appended /\ heldRequest.type = "unanimous")
    => heldRequest.state = UnanimousExpected(heldRequest)

\* ------------------------------------------------------------------------
\* Properties of the store under two concurrent callers
\* ------------------------------------------------------------------------
AllDone == \A w \in WorkerIds : workers[w].pc = "done"

\* one caller's read, processAction and save, run without interruption
ApplyWorker(r, w) ==
  LET res == processAction(checkExpiration(r, now), workers[w].approverId,
                           workers[w].action, now)
  IN IF res.error # "none" THEN r ELSE res.request

\* C3: when two callers act on the same stored request, what the store holds
\* in the end is what one of the two serial orders of their actions yields.
C3_Linearized ==
  AllDone =>
    store[created.id] \in
      { ApplyWorker(ApplyWorker(created, "w1"), "w2"),
        ApplyWorker(ApplyWorker(created, "w2"), "w1") }

\* ------------------------------------------------------------------------
\* Properties of the role hierarchy
\* ------------------------------------------------------------------------
SeqToSet(q) == { q[i] : i \in 1..Len(q) }

WsRoleSet == {"ws:admin", "ws:member", "ws:viewer"}

\* the user holds a grant of `role` for the organization
HoldsOrgGrant(userRoles, role) ==
  \E i \in 1..Len(userRoles) : userRoles[i].role = role /\ userRoles[i].scope = OrgId

\* every grant of the user is org:member, and there is one
OnlyOrgMember(userRoles) ==
  /\ Len(userRoles) > 0
  /\ \A i \in 1..Len(userRoles) : userRoles[i].role = "org:member"

\* C13: the effective roles contain ws:admin, ws:member and ws:viewer, for
\* every workspace, whenever the user holds an org:owner or an org:admin grant
\* for the organization, and none of the three when all the user's grants are
\* org:member.
C13_OrgAuthorityReachesWorkspaces ==
  lastEffective.kind = "result" =>
    /\ (HoldsOrgGrant(lastEffective.userRoles, "org:owner")
          \/ HoldsOrgGrant(lastEffective.userRoles, "org:admin"))
         => WsRoleSet \subseteq SeqToSet(lastEffective.roles)
    /\ OnlyOrgMember(lastEffective.userRoles)
         => WsRoleSet \cap SeqToSet(lastEffective.roles) = {}

\* ------------------------------------------------------------------------
\* Properties of the PolicyCache
\* ------------------------------------------------------------------------
\* the entries of `sorted` that come first, n of them
Oldest(cache, n) ==
  LET sorted == SortByExpiry(cache) IN
  { sorted[i].key : i \in 1..(IF n < Len(sorted) THEN n ELSE Len(sorted)) }

\* C18: whatever maxSize the cache was constructed with, and after any
\* sequence of set, get, clearExpired, invalidate and clear, the number of
\* stored entries does not exceed maxSize; a set that finds the cache full
\* drops the entries with the smallest expiresAt before it inserts.
C18_SizeWithinMaxSize ==
  /\ Len(unitCache.cache) <= unitMaxSize
  /\ (lastCacheOp.name = "set" /\ Len(lastCacheOp.before.cache) >= unitMaxSize) =>
       LET gone == Oldest(lastCacheOp.before.cache, EntriesToEvict(unitMaxSize)) IN
       \A i \in 1..Len(lastCacheOp.before.cache) :
         LET e == lastCacheOp.before.cache[i] IN
         (e.key \in gone /\ e.key # lastCacheOp.arg) =>
           CacheIndex(unitCache.cache, e.key) = 0

\* C19: get never returns an entry whose expiresAt is earlier than the time
\* of the call: such an entry is a miss, it is counted as a miss and removed,
\* and a key that is not in the map (as after that removal) is a miss as well;
\* a hit returns the stored value of an entry that has not expired.
C19_ExpiredIsMiss ==
  lastCacheOp.name = "get" =>
    LET before == lastCacheOp.before
        i == CacheIndex(before.cache, lastCacheOp.arg)
    IN /\ lastCacheOp.result.found =>
            /\ i # 0
            /\ before.cache[i].expiresAt >= lastCacheOp.at
            /\ lastCacheOp.result.value = before.cache[i].value
            /\ unitCache = [before EXCEPT !.hits = @ + 1]
       /\ (i # 0 /\ before.cache[i].expiresAt < lastCacheOp.at) =>
            /\ ~lastCacheOp.result.found
            /\ unitCache.misses = before.misses + 1
            /\ unitCache.hits = before.hits
            /\ unitCache.cache = CacheDelete(before.cache, lastCacheOp.arg)
       /\ i = 0 =>
            /\ ~lastCacheOp.result.found
            /\ unitCache = [before EXCEPT !.misses = @ + 1]

\* C19 witness: a get of a stored key after its expiresAt, answered by null
C19_Witness ==
  /\ lastCacheOp.name = "get"
  /\ CacheIndex(lastCacheOp.before.cache, lastCacheOp.arg) # 0
  /\ lastCacheOp.before.cache[CacheIndex(lastCacheOp.before.cache, lastCacheOp.arg)].expiresAt
       < lastCacheOp.at
  /\ ~lastCacheOp.result.found
  /\ CacheIndex(unitCache.cache, lastCacheOp.arg) = 0

\* does the text start with the prefix?
StartsWith(text, prefix) ==
  Len(prefix) <= Len(text) /\ SubSeq(text, 1, Len(prefix)) = prefix

\* C20: invalidateUser(userId) removes exactly the entries whose key starts
\* with userId followed by '-', returns their number, and leaves every other
\* entry and the hit and miss counters as they were, for every userId.
C20_InvalidateUserExact ==
  lastCacheOp.name = "invalidateUser" =>
    LET before == lastCacheOp.before
        prefix == lastCacheOp.arg \o <<"-">>
        kept == SelectSeq(before.cache, LAMBDA e : ~StartsWith(e.key, prefix))
    IN /\ unitCache = [before EXCEPT !.cache = kept]
       /\ lastCacheOp.result = Len(before.cache) - Len(kept)

\* ------------------------------------------------------------------------
\* Properties of the AuditLogger
\* ------------------------------------------------------------------------
\* C14: when a flush() call resolves, every event that log() had accepted
\* before the call is in the file and covered by an fsync, whoever made the
\* call and whatever other flush is under way.
C14_ResolvedFlushIsDurable ==
  lastFlush.status = "resolved" => lastFlush.notDurable = {}

\* C15: when a flush() call fails in its writes or its sync, the events of
\* its batch are in the buffer afterwards.
C15_FailedFlushKeepsBatch ==
  lastFlush.status = "rejected" => lastFlush.dropped = {}

\* C16: a log() call never fails; when the flush it triggers fails, log()
\* still completes normally and its event is not lost.
C16_LogNeverFails ==
  lastDone.call = "log" => (lastDone.ok /\ ~lastDone.lost)

\* C17: when close() resolves, the buffer is empty, every event accepted
\* before the call is in the file, the stream is closed and the timer is
\* stopped, also when another flush is under way during the call.
C17_CloseLeavesNothingBehind ==
  (lastDone.call = "close" /\ lastDone.ok) =>
    /\ lastDone.bufferLeft = 0
    /\ lastDone.notInFile = {}
    /\ lastDone.streamClosed
    /\ lastDone.timerStopped

\* ------------------------------------------------------------------------
\* Properties of the ApprovalStore readers
\* ------------------------------------------------------------------------
\* the stored requests a reader's filter selected, before checkExpiration
Selected ==
  CASE lastFind.op = "get" -> SelectSeq(requests, LAMBDA r : r.id = lastFind.arg)
    [] lastFind.op = "findByUser" ->
         ApprovalStore_findByUser_Stored(requests, lastFind.arg, lastFind.state, now)
    [] lastFind.op = "findPendingForApprover" ->
         SelectSeq(requests, LAMBDA r : r.state = "pending" /\ IsApprover(r, lastFind.arg))
    [] OTHER -> <<>>

\* C21: no request returned by get, findByUser or findPendingForApprover is
\* pending with an expiresAt earlier than the time of the call; a stored
\* request that is pending and past due is returned as expired
C21_NoPastDuePendingReturned ==
  lastFind.op \in {"get", "findByUser", "findPendingForApprover"} =>
    /\ Len(lastFind.result) = Len(Selected)
    /\ \A i \in 1..Len(lastFind.result) :
         /\ ~(lastFind.result[i].state = "pending" /\ lastFind.result[i].expiresAt < now)
         /\ PastDue(Selected[i], now) => lastFind.result[i].state = "expired"

\* C21 witness: findByUser returns as expired a request the store still holds
\* as pending, next to a request of the same user that is not yet due
C21_Witness ==
  /\ lastFind.op = "findByUser"
  /\ Len(lastFind.result) = 2
  /\ requests[1].state = "pending"
  /\ lastFind.result[1].state = "expired"
  /\ lastFind.result[2].state = "pending"

\* ------------------------------------------------------------------------
\* Properties of the audit segments and of QueryEngine
\* ------------------------------------------------------------------------
\* the events that reached a segment file, as log() stamped them
OnDisk == SelectSeq(logged, LAMBDA e : \A i \in 1..Len(auditBuf) : auditBuf[i].id # e.id)

Supplied(v) == v # Undefined
SuppliedNumber(n) == n # Absent

\* the event has every supplied field of the filter and lies in its time window
Satisfies(e, q) ==
  /\ \A f \in {"orgId", "workspaceId", "userId", "agentId", "action", "result"} :
       Supplied(q[f]) => e[f] = q[f]
  /\ SuppliedNumber(q.startTime) => e.timestamp >= q.startTime
  /\ SuppliedNumber(q.endTime) => e.timestamp <= q.endTime

Unpaged(q) == q.limit = Absent /\ q.offset = Absent

\* C22: an event that was logged and flushed is returned exactly once by a
\* query whose filter it satisfies, with the orgId, action, result and
\* timestamp it was logged with
C22_FlushedEventRoundTrip ==
  (lastQuery.op = "query" /\ Unpaged(lastQuery.query)) =>
    \A i \in 1..Len(OnDisk) :
      Satisfies(OnDisk[i], lastQuery.query) =>
        /\ Cardinality({ j \in 1..Len(lastQuery.result) :
                           lastQuery.result[j].id = OnDisk[i].id }) = 1
        /\ \A j \in 1..Len(lastQuery.result) :
             lastQuery.result[j].id = OnDisk[i].id =>
               /\ lastQuery.result[j].orgId = OnDisk[i].orgId
               /\ lastQuery.result[j].action = OnDisk[i].action
               /\ lastQuery.result[j].result = OnDisk[i].result
               /\ lastQuery.result[j].timestamp = OnDisk[i].timestamp

\* all on-disk events, ordered by segment file name and then by line
RECURSIVE AllLines(_, _)
AllLines(dir, files) ==
  IF files = <<>> THEN <<>>
  ELSE readLogFile(dir, Head(files)) \o AllLines(dir, Tail(files))

DiskEvents == AllLines(segments, SortNames(DOMAIN segments))

AllSatisfying(q) == SelectSeq(DiskEvents, LAMBDA e : Satisfies(e, q))

\* C23: what query returns, count counts and distinct collects is exactly the
\* on-disk events that satisfy the filter: every supplied field equal, the
\* timestamp within [startTime, endTime], none left out
C23_FilterExact ==
  Unpaged(IF lastQuery.op = "none" THEN NoPaging ELSE lastQuery.query) =>
    CASE lastQuery.op = "query" ->
           /\ \A j \in 1..Len(lastQuery.result) :
                Satisfies(lastQuery.result[j], lastQuery.query)
           /\ lastQuery.result = AllSatisfying(lastQuery.query)
      [] lastQuery.op = "count" -> lastQuery.result = Len(AllSatisfying(lastQuery.query))
      [] lastQuery.op = "distinct" ->
           lastQuery.result = { AllSatisfying(lastQuery.query)[i].orgId :
                                  i \in 1..Len(AllSatisfying(lastQuery.query)) }
      [] OTHER -> TRUE

Slice(q, from, to) == [i \in 1..(IF to >= from THEN to - from + 1 ELSE 0) |-> q[from + i - 1]]

Min(a, b) == IF a < b THEN a ELSE b

\* the events the engine pages over: the matches of the candidate files
AllMatching(q) == MatchingIn(segments, Candidates(segments, q), q)

\* C24: query returns the events at positions offset .. offset+limit-1 of the
\* matching events in file and line order, and never more than limit events
C24_OffsetThenLimit ==
  lastQuery.op = "query" =>
    LET q == lastQuery.query
        all == AllMatching(q)
        offset == IF SuppliedNumber(q.offset) THEN q.offset ELSE 0
        limit == IF SuppliedNumber(q.limit) THEN q.limit ELSE DefaultLimit
    IN /\ lastQuery.result = Slice(all, offset + 1, Min(Len(all), offset + limit))
       /\ Len(lastQuery.result) <= limit

\* C27: every line of the segment file audit-D.jsonl carries a timestamp whose
\* UTC calendar date is D
C27_SegmentHoldsItsDay ==
  \A name \in DOMAIN segments :
    \A i \in 1..Len(segments[name]) : segments[name][i].timestamp.date = name

\* ------------------------------------------------------------------------
\* Properties of RetentionPolicy.enforce
\* ------------------------------------------------------------------------
Enforced == lastEnforce.op = "enforce" /\ lastEnforce.logBefore.exists

Names(q) == { q[i] : i \in 1..Len(q) }

Removed == Names(lastEnforce.result.deleted) \cup Names(lastEnforce.result.archived)

\* the date in the name is older than now minus retentionDays
Expired(filename) ==
  /\ FileDates[filename].kind = "date"
  /\ FileDates[filename].t < now - lastEnforce.config.retentionDays * DayTicks

\* C25: with dryRun set, enforce leaves logDir and archiveDir exactly as they
\* were (nothing removed, moved or created) and reports the expired files in
\* deleted or archived
C25_DryRunTouchesNothing ==
  (lastEnforce.op = "enforce" /\ lastEnforce.config.dryRun) =>
    /\ retLogDir = lastEnforce.logBefore
    /\ retArchive = lastEnforce.archiveBefore
    /\ Removed = { f \in lastEnforce.logBefore.files : EndsWithJsonl(f) /\ Expired(f) }

Occurrences(f) ==
  LET r == lastEnforce.result
      all == r.deleted \o r.archived \o r.kept \o r.errors
  IN Cardinality({ i \in 1..Len(all) : all[i] = f })

\* C26: every .jsonl file of logDir is in exactly one of deleted, archived,
\* kept, errors; only files whose name carries a date older than now minus
\* retentionDays are deleted or archived; with an archiveDir nothing is
\* deleted and an archived file is in archiveDir under its name; files
\* without a parseable date and files that are not .jsonl stay in place
C26_EnforcePartitionsAndKeeps ==
  Enforced =>
    /\ \A f \in lastEnforce.logBefore.files :
         Occurrences(f) = IF EndsWithJsonl(f) THEN 1 ELSE 0
    /\ \A f \in Removed : Expired(f)
    /\ lastEnforce.config.archiveDir =>
         /\ lastEnforce.result.deleted = <<>>
         /\ ~lastEnforce.config.dryRun =>
              \A f \in Names(lastEnforce.result.archived) :
                f \in retArchive.files /\ f \notin retLogDir.files
    /\ (~lastEnforce.config.archiveDir /\ ~lastEnforce.config.dryRun) =>
         /\ lastEnforce.result.archived = <<>>
         /\ \A f \in Names(lastEnforce.result.deleted) : f \notin retLogDir.files
    /\ \A f \in lastEnforce.logBefore.files :
         (~EndsWithJsonl(f) \/ FileDates[f].kind # "date"
            \/ f \in Names(lastEnforce.result.kept)) => f \in retLogDir.files

\* C26 witness: one enforce with an archiveDir moves the expired segment,
\* keeps the segment of the day, the undated log and the text file
C26_Witness ==
  /\ Enforced
  /\ lastEnforce.config.archiveDir /\ ~lastEnforce.config.dryRun
  /\ lastEnforce.result.archived = <<OldSegment>>
  /\ lastEnforce.logBefore.files = {OldSegment, SecondSegment, UndatedLog, NoSuchMonth, TextFile}
  /\ retLogDir.files = {SecondSegment, UndatedLog, NoSuchMonth, TextFile}
  /\ OldSegment \in retArchive.files

\* ------------------------------------------------------------------------
\* Properties of checkPermission on contexts with properties left out
\* ------------------------------------------------------------------------
Attempted == lastAttempt.op = "checkPermission"

\* C28: checkPermission never raises an error, whatever properties the
\* PermissionContext lacks (userRoles, policies): it returns an
\* AccessDecision, and a refusal has granted = false and a non-empty reason.
C28_MalformedContextDenied ==
  Attempted =>
    /\ ~lastAttempt.outcome.threw
    /\ ~lastAttempt.outcome.decision.granted =>
         Len(lastAttempt.outcome.decision.reason) > 0

\* ------------------------------------------------------------------------
\* Properties of the role order
\* ------------------------------------------------------------------------
\* the two families, each from its highest role to its lowest
OrgOrder == <<"org:owner", "org:admin", "org:member">>
WsOrder == <<"ws:admin", "ws:member", "ws:viewer">>

InOrder(order, role) == \E i \in 1..Len(order) : order[i] = role
Place(order, role) == CHOOSE i \in 1..Len(order) : order[i] = role

SameFamily(a, b) ==
  \/ InOrder(OrgOrder, a) /\ InOrder(OrgOrder, b)
  \/ InOrder(WsOrder, a) /\ InOrder(WsOrder, b)

\* a is b or stands before b in the order of their family
AtOrAbove(a, b) ==
  \/ InOrder(OrgOrder, a) /\ InOrder(OrgOrder, b) /\ Place(OrgOrder, a) <= Place(OrgOrder, b)
  \/ InOrder(WsOrder, a) /\ InOrder(WsOrder, b) /\ Place(WsOrder, a) <= Place(WsOrder, b)

\* C29: for the six defined roles roleIncludes(a, a) is true, roleIncludes(a, b)
\* is false when a and b are of different families, and within one family it
\* is true exactly when a is at or above b (owner > admin > member for org,
\* admin > member > viewer for workspaces).
C29_RoleIncludesIsFamilyOrder ==
  lastIncludes.op = "roleIncludes" =>
    LET a == lastIncludes.roleA
        b == lastIncludes.roleB
    IN /\ a = b => lastIncludes.result
       /\ ~SameFamily(a, b) => ~lastIncludes.result
       /\ SameFamily(a, b) => (lastIncludes.result <=> AtOrAbove(a, b))

\* roleIncludes answered true for a role strictly above another of its family
C29_Witness ==
  /\ lastIncludes.op = "roleIncludes"
  /\ lastIncludes.roleA = "org:admin"
  /\ lastIncludes.roleB = "org:member"
  /\ lastIncludes.result

\* ------------------------------------------------------------------------
\* Properties of the redactor
\* ------------------------------------------------------------------------
\* the sensitive names, in lower case: password, secret, token, api key,
\* auth, credential, private key (the two-word names written together or
\* joined by _ or -)
SensitiveWords ==
  { <<"p", "a", "s", "s", "w", "o", "r", "d">>,
    <<"s", "e", "c", "r", "e", "t">>,
    <<"t", "o", "k", "e", "n">>,
    <<"a", "p", "i", "k", "e", "y">>,
    <<"a", "p", "i", "_", "k", "e", "y">>,
    <<"a", "p", "i", "-", "k", "e", "y">>,
    <<"a", "u", "t", "h">>,
    <<"c", "r", "e", "d", "e", "n", "t", "i", "a", "l">>,
    <<"p", "r", "i", "v", "a", "t", "e", "k", "e", "y">>,
    <<"p", "r", "i", "v", "a", "t", "e", "_", "k", "e", "y">>,
    <<"p", "r", "i", "v", "a", "t", "e", "-", "k", "e", "y">> }

Folded(text) == [i \in 1..Len(text) |-> ToLowerCase(text[i])]

Contains(text, word) ==
  \E p \in 0..(Len(text) - Len(word)) : SubSeq(text, p + 1, p + Len(word)) = word

NamesSensitive(key) == \E word \in SensitiveWords : Contains(Folded(key), word)

\* out is what the claim requires of the redaction of input: the same keys
\* in objects and the same length in arrays, the marker under every sensitive
\* key whatever its value, other values redacted in turn, numbers, booleans
\* and null as they were
RECURSIVE RedactedAs(_, _)
RedactedAs(input, out) ==
  CASE input.t = "obj" ->
         /\ out.t = "obj"
         /\ Len(out.entries) = Len(input.entries)
         /\ \A i \in 1..Len(input.entries) :
              /\ out.entries[i].key = input.entries[i].key
              /\ IF NamesSensitive(input.entries[i].key)
                   THEN out.entries[i].value = JsonString(REDACTED)
                   ELSE RedactedAs(input.entries[i].value, out.entries[i].value)
    [] input.t = "arr" ->
         /\ out.t = "arr"
         /\ Len(out.items) = Len(input.items)
         /\ \A i \in 1..Len(input.items) : RedactedAs(input.items[i], out.items[i])
    [] input.t = "str" -> out.t = "str"
    [] OTHER -> out = input

Misconfigured(r) ==
  r # NoRequest /\ r.type = "majority" /\ r.requiredApprovals > Len(r.approvers)

\* C31 as stated: a majority request created with requiredApprovals greater
\* than the number of approvers is never moved to approved or denied by
\* processAction: it stays pending until it expires or is cancelled.
C31_Original ==
  Misconfigured(heldRequest) => heldRequest.state \notin {"approved", "denied"}

\* C31 amended: such a request is never approved; the first action that
\* processAction records on it, approve or deny, moves it to denied; it is
\* pending, expired or cancelled only while no action has been recorded.
C31_MisconfiguredMajorityDenied ==
  Misconfigured(heldRequest) =>
    /\ heldRequest.state # "approved"
    /\ Appended => heldRequest.state = "denied"
    /\ heldRequest.state = "denied" <=> Len(heldRequest.approvals) = 1
    /\ Len(heldRequest.approvals) <= 1

\* C31 witness: the only approver approves a request that requires two
C31_Witness ==
  /\ Misconfigured(heldRequest)
  /\ Appended
  /\ lastOp.action = "approve"
  /\ lastOp.before.state = "pending"
  /\ heldRequest.state = "denied"

\* ------------------------------------------------------------------------
\* Properties of the default grants across scopes and grant lists
\* ------------------------------------------------------------------------
\* every grant of the call's user is a workspace role scoped to the
\* workspace of the context
OnlyGrantsInOwnWorkspace(call) ==
  /\ Len(call.context.userRoles) > 0
  /\ \A i \in 1..Len(call.context.userRoles) :
       /\ IsWsRole(call.context.userRoles[i].role)
       /\ call.context.userRoles[i].scope = call.context.workspaceId

\* the call names a target scope other than the workspace of the context
TargetsOtherScope(call) ==
  call.targetScope # "" /\ call.targetScope # call.context.workspaceId

\* C32: a default grant of scope `workspace` applies to the current workspace
\* only: a user whose grants are all workspace roles scoped to workspace A,
\* checked with context.workspaceId = A and a targetScope B other than A, is
\* not granted by the default role grants.
C32_WorkspaceGrantStaysInWorkspace ==
  (IsCall /\ OnlyGrantsInOwnWorkspace(lastCall) /\ TargetsOtherScope(lastCall))
    => lastPath # "default"

\* the user of the call holds org:owner scoped to the organization of the context
HoldsOrgOwner(context) ==
  \E i \in 1..Len(context.userRoles) :
    context.userRoles[i] = UserRole("org:owner", context.orgId)

\* C33: a user who holds an org:owner grant scoped to context.orgId is granted
\* every resource and action on every scope, with granted = true and
\* approvalRequired = false, whatever other grants userRoles contains and in
\* whatever order.
C33_OrgOwnerGrantedEverything ==
  (Attempted /\ lastAttempt.absent = {} /\ HoldsOrgOwner(lastAttempt.context)) =>
    /\ ~lastAttempt.outcome.threw
    /\ lastAttempt.outcome.decision.granted
    /\ ~lastAttempt.outcome.decision.approvalRequired

\* ------------------------------------------------------------------------
\* The state filters of the ApprovalStore finders
\* ------------------------------------------------------------------------
\* C34: the state filters of the finders agree with the state returned: every
\* request returned by findPendingForApprover is pending, and every request
\* returned by findByUser(userId, state) has the requested state, at any time
\* relative to expiresAt.
C34_FinderStateMatchesFilter ==
  /\ lastFind.op = "findPendingForApprover" =>
       \A i \in 1..Len(lastFind.result) : lastFind.result[i].state = "pending"
  /\ (lastFind.op = "findByUser" /\ lastFind.state # Undefined) =>
       \A i \in 1..Len(lastFind.result) : lastFind.result[i].state = lastFind.state

\* ------------------------------------------------------------------------
\* Requests on which every approver has acted; completedAt
\* ------------------------------------------------------------------------
\* every member of the approvers list has an entry in approvals
AllApproversActed(r) == ApproverSet(r) \subseteq ActedSet(r)

\* C35: for every consensus type and every approvers list that create accepts,
\* a request does not stay pending once every approver of its list has acted
\* before expiry: after the last approver's processAction the state is
\* approved or denied.
C35_DecidedWhenAllActed ==
  (Appended /\ AllApproversActed(heldRequest))
    => heldRequest.state \in {"approved", "denied"}

\* C37: in every ApprovalRequest value produced by create, processAction,
\* cancel or checkExpiration, completedAt is set exactly when the state is
\* approved, denied, expired or cancelled, and absent while it is pending.
C37_CompletedAtIffTerminal ==
  heldRequest # NoRequest =>
    (IsTerminal(heldRequest.state) <=> heldRequest.completedAt # <<>>)

\* ------------------------------------------------------------------------
\* Properties of the AuditLogger without I/O errors
\* ------------------------------------------------------------------------
\* the lines of the segment file followed by the lines the stream has taken
\* and will write
Written == fileData \o streamQueue

\* a flush() call resolves in this step and leaves the buffer empty
FlushCompletesEmpty ==
  /\ lastFlush' # lastFlush
  /\ lastFlush'.status = "resolved"
  /\ logBuffer' = <<>>

\* C36: without I/O errors, for any interleaving of log() with explicit,
\* threshold-triggered and timer-triggered flush() calls, once a flush has
\* completed with the buffer empty every event log() accepted is on disk
\* exactly once, and the events of the segment are in the order log()
\* accepted them.
C36_FlushedExactlyOnceInOrder ==
  [][FlushCompletesEmpty =>
       /\ \A e \in 1..(nextEvent' - 1) :
            Cardinality({ i \in 1..Len(Written') : Written'[i] = e }) = 1
       /\ \A i, j \in 1..Len(Written') : i < j => Written'[i] < Written'[j]]_vars

\* C38: after any log() call completes successfully the buffer holds fewer
\* than maxBufferSize events: reaching maxBufferSize always triggers a flush
\* that empties the buffer, also when another flush is in progress.
C38_BufferBelowMaxAfterLog ==
  (lastDone.call = "log" /\ lastDone.ok /\ tasks[Caller] = Idle)
    => Len(logBuffer) < MaxBufferSize

\* C39: enforce never deletes or archives a segment holding an event that was
\* logged less than retentionDays days before the enforcement time
C39_RecentEventsKept ==
  lastSweep.op = "enforce" =>
    \A e \in lastSweep.removed :
      lastSweep.at - e.timestamp >= lastSweep.config.retentionDays * DayTicks

\* the pattern list instance id works with
PatternsOf(id) == patternArrays[redactors[id]]

\* C40: addPattern and removePattern on one PIIRedactor instance change that
\* instance's pattern list only: a step that constructs no instance leaves the
\* lists of all instances but at most one as they were, and leaves the contents
\* of DEFAULT_REDACTION_PATTERNS as they were
C40_PatternEditsStayInInstance ==
  [][DOMAIN redactors' = DOMAIN redactors =>
       /\ Cardinality({ id \in DOMAIN redactors : PatternsOf(id)' # PatternsOf(id) }) <= 1
       /\ patternArrays'[DefaultArray] = patternArrays[DefaultArray]]_vars

====
